---- MODULE Spec2Model ----
(***************************************************************************)
(* Verification model of gammasim-tools:                                   *)
(*   simtools/model/camera.py   (class Camera: pixel layout, neighbour    *)
(*                               search, edge pixels, field of view)       *)
(*   simtools/psf_analysis.py   (class PSFImage: photon image, PSF solver) *)
(*                                                                         *)
(* Lengths are integers.  Camera lengths are in the unit of the pixel      *)
(* list; the radius factors 1.1, 1.4, 0.2 and 1.2 are kept in tenths, so   *)
(* that every distance comparison of the code is an exact comparison of    *)
(* integers (squared distances against squared radii).                     *)
(***************************************************************************)
EXTENDS Integers, Sequences, FiniteSets, TLC

None == "None"
\* an optional value: the empty sequence for Python's None, else <<value>>
Nothing == << >>
Some(v) == <<v>>

(***************************************************************************)
(* Bounds of the model.                                                    *)
(***************************************************************************)
\* largest number of Pixel records in a camera config file
MaxPixels == 7
\* largest number of Pixel records carrying the "off" flag
MaxOff == 1
\* largest number of accessor calls made on one instance
MaxCalls == 2
\* side of the regular grid of square pixels
GridSide == 3

(***************************************************************************)
(* Arithmetic helpers.                                                     *)
(***************************************************************************)
Abs(a) == IF a < 0 THEN -a ELSE a

RECURSIVE SqrtSearch(_, _, _)
\* largest r in lo..hi with r*r <= n (bisection)
SqrtSearch(n, lo, hi) ==
    IF lo >= hi THEN lo
    ELSE LET mid == (lo + hi + 1) \div 2
         IN  IF mid * mid <= n THEN SqrtSearch(n, mid, hi)
                               ELSE SqrtSearch(n, lo, mid - 1)

\* floor of the square root; 46340 is the largest root of a 32-bit square
ISqrt(n) == SqrtSearch(n, 0, IF n < 46340 THEN n ELSE 46340)

RECURSIVE SeqOfSet(_)
\* the elements of a set of integers, in increasing order
SeqOfSet(S) ==
    IF S = {} THEN << >>
    ELSE LET m == CHOOSE a \in S : \A b \in S : a <= b
         IN  <<m>> \o SeqOfSet(S \ {m})

RECURSIVE SumOver(_, _)
\* sum of f[i] over the indices in S
SumOver(f, S) ==
    IF S = {} THEN 0
    ELSE LET i == CHOOSE a \in S : TRUE
         IN  f[i] + SumOver(f, S \ {i})

(***************************************************************************)
(* Camera: class constants (camera.py 51-53) in tenths, and the factor     *)
(* 1.2 written inline at camera.py 416.                                    *)
(***************************************************************************)
PMT_NEIGHBOR_RADIUS_FACTOR == 11
SIPM_NEIGHBOR_RADIUS_FACTOR == 14
SIPM_ROW_COLUMN_DIST_FACTOR == 2
ADJACENT_DIST_FACTOR == 12
\* sentinel of readPixelList for "never set" (camera.py 116-118)
UNSET == 9999
\* fixed-point denominator of the average edge distance
LenScale == 100

VARIABLES
    camState,              \* "none" | "ok" | "failed": outcome of Camera.__init__
    camError,              \* the exception __init__ raised, or None
    pixelListRead,         \* TRUE once readPixelList has been called
    _focalLength,          \* self._focalLength
    _pixels,               \* self._pixels (dict of readPixelList, rotated)
    _neighbours,           \* self._neighbours
    _edgePixelIndices,     \* self._edgePixelIndices
    nCalcNeighbourPixels,  \* number of executions of _calcNeighbourPixels
    nCalcEdgePixels,       \* number of executions of _calcEdgePixels
    nCalcFOV,              \* number of executions of _calcFOV
    camCalls,              \* number of accessor calls made so far
    camRet                 \* the last call and what it returned or raised

camVars == <<camState, camError, pixelListRead, _focalLength, _pixels,
             _neighbours, _edgePixelIndices, nCalcNeighbourPixels,
             nCalcEdgePixels, nCalcFOV, camCalls, camRet>>

VARIABLES
    psfState,                  \* "none" | "created": a PSFImage exists
    photonPosX, photonPosY,    \* self.photonPosX, self.photonPosY
    centroidX, centroidY,      \* self.centroidX, self.centroidY
    _totalArea,                \* self._totalArea
    _totalPhotons,             \* self._totalPhotons
    _numberOfDetectedPhotons,  \* self._numberOfDetectedPhotons
    _effectiveArea,            \* self._effectiveArea
    _storedPSF,                \* self._storedPSF: fraction -> Nothing (no key) or Some(value)
    _hasFocalLength,           \* self._hasFocalLength
    _cmToDeg,                  \* self._cmToDeg
    nFindPSF,                  \* number of executions of _findPSF, per fraction
    nSetPSF,                   \* number of calls of setPSF since construction
    psfCalls,                  \* number of getPSF and setPSF calls made so far
    psfRet                     \* the last call and what it returned or raised

psfVars == <<psfState, photonPosX, photonPosY, centroidX, centroidY, _totalArea,
             _totalPhotons, _numberOfDetectedPhotons, _effectiveArea, _storedPSF,
             _hasFocalLength, _cmToDeg, nFindPSF, nSetPSF, psfCalls, psfRet>>

VARIABLES
    effState,          \* "none" | "created" | "failed": outcome of CameraEfficiency.__init__
    _hasResults,       \* self._hasResults
    _results,          \* self._results: Nothing (no attribute) or Some(table)
    fileResults,       \* the file self._fileResults: Nothing (absent) or Some(table)
    fileSimtel,        \* the file self._fileSimtel: Nothing (absent) or Some(lines)
    fillFactorStatus,  \* what camera.getCameraFillFactor() does: "ok" | "ValueError"
    effCalls,          \* number of simulate, analyze and exportResults calls so far
    effRet             \* the last call, what it did and the state before it

effVars == <<effState, _hasResults, _results, fileResults, fileSimtel,
             fillFactorStatus, effCalls, effRet>>

(***************************************************************************)
(* Camera config files.  A file is a record                                *)
(*   pixType : Nothing, or Some([shape, diameter, files]) of the PixType   *)
(*             line; files are the tokens from the ninth on (the           *)
(*             lightguide efficiency file names)                           *)
(*   rotate  : the angle of the Rotate line, in quarter turns              *)
(*   pixels  : the Pixel lines, [id, x, y, on]; on is Nothing when the     *)
(*             line has no tenth token                                     *)
(* The pixel lines of a file are chosen among the positions of a pool.     *)
(***************************************************************************)
P(a, b) == [x |-> a, y |-> b]

\* hexagonal ring around (0,0), diameter 50, and a pixel at exactly 1.1 x 50
HexPool == [diameter |-> 50, shapes |-> {1, 3},
            pos |-> << P(0, 0), P(50, 0), P(25, 45), P(-25, 45), P(-50, 0),
                       P(-25, -45), P(25, -45), P(0, 55) >>]

\* square cross around (0,0), diameter 50; (80,0) lies beyond 1.4 x 50 in the
\* row of (0,0); (76,10) is at exactly 0.2 x 50 from that row; (0,-84) is at
\* exactly 1.2 x 1.4 x 50 from (0,0)
SquarePool == [diameter |-> 50, shapes |-> {2},
               pos |-> << P(0, 0), P(50, 0), P(-50, 0), P(0, 50), P(0, -50),
                          P(80, 0), P(76, 10), P(0, -84) >>]

\* the three-pixel scenario with diameter 1
TriPool == [diameter |-> 1, shapes |-> {1, 2, 3},
            pos |-> << P(0, 0), P(1, 0), P(0, 1) >>]

Pools == {HexPool, SquarePool, TriPool}

\* the Pixel lines made of the pool positions with index in S, of which the
\* ones with index in off carry the flag 0
PixelLines(pool, S, off) ==
    LET idx == SeqOfSet(S)
    IN  [k \in 1..Len(idx) |->
            [id |-> idx[k], x |-> pool.pos[idx[k]].x, y |-> pool.pos[idx[k]].y,
             on |-> IF idx[k] \in off THEN Some(0) ELSE Nothing]]

\* the sets of pool indices a file may take its Pixel lines from
PixelChoices(pool) ==
    { S \in SUBSET (1..Len(pool.pos)) : S # {} /\ Cardinality(S) <= MaxPixels }

OffChoices(S) == { off \in SUBSET S : Cardinality(off) <= MaxOff }

ValidFiles ==
    UNION { UNION { { [pixType |-> Some([shape |-> sh, diameter |-> pool.diameter,
                                          files |-> <<"funnel.dat">>]),
                       rotate |-> 0,
                       pixels |-> PixelLines(pool, S, off)] :
                         sh \in pool.shapes, off \in OffChoices(S) } :
                    S \in PixelChoices(pool) } :
            pool \in Pools }

\* files readPixelList rejects: no PixType line, or an unknown shape code
MalformedFiles ==
    { [pixType |-> pt, rotate |-> 0, pixels |-> PixelLines(TriPool, {1, 2, 3}, {})] :
        pt \in {Nothing} \cup { Some(t) : t \in [shape : {0, 4}, diameter : {1},
                                                  files : {<<"funnel.dat">>}] } }

\* PixType lines with no, one or two file names after the depth token, and
\* with the diameters 0 and 1
PixTypeFiles ==
    { [pixType |-> Some(t), rotate |-> 0, pixels |-> PixelLines(TriPool, {1, 2, 3}, {})] :
        t \in [shape : {1, 2}, diameter : {0, 1},
               files : {<< >>, <<"funnel.dat">>, <<"funnel.dat", "funnel_wl.dat">>}] }

\* square pixels of diameter 50 on a regular grid of GridSide x GridSide
\* positions, 50 apart
GridPool ==
    [diameter |-> 50, shapes |-> {2},
     pos |-> [k \in 1..(GridSide * GridSide) |->
                P(50 * ((k - 1) % GridSide), 50 * ((k - 1) \div GridSide))]]

\* the positions on the border of the grid
GridBorder ==
    { k \in 1..(GridSide * GridSide) :
        \/ (k - 1) % GridSide \in {0, GridSide - 1}
        \/ (k - 1) \div GridSide \in {0, GridSide - 1} }

\* the whole grid, with no pixel, one pixel or the whole border flagged off
GridFiles ==
    { [pixType |-> Some([shape |-> 2, diameter |-> GridPool.diameter,
                         files |-> <<"funnel.dat">>]),
       rotate |-> 0,
       pixels |-> PixelLines(GridPool, 1..(GridSide * GridSide), off)] :
        off \in {{}, {1}, {GridSide + 2}, GridBorder} }

\* the hexagonal ring with every pixel but the central one flagged off
IslandFiles ==
    { [pixType |-> Some([shape |-> sh, diameter |-> HexPool.diameter,
                         files |-> <<"funnel.dat">>]),
       rotate |-> 0,
       pixels |-> PixelLines(HexPool, 1..7, 2..7)] : sh \in HexPool.shapes }

ConfigFiles ==
    ValidFiles \cup MalformedFiles \cup PixTypeFiles \cup GridFiles \cup IslandFiles

\* the telescopes a camera is built for, and the focal lengths given
TelescopeNames == {"North-LST-1", "South-SST-D"}
FocalLengths == {-5, 0, 28}

\* simtools.util.model.isTwoMirrorTelescope: dual-mirror telescopes
isTwoMirrorTelescope(telescopeName) == telescopeName = "South-SST-D"

\* CAMERA_ROTATE_ANGLE[getCameraName(telescopeName)], in quarter turns
CAMERA_ROTATE_ANGLE(telescopeName) ==
    IF telescopeName = "South-SST-D" THEN 1 ELSE 0

(***************************************************************************)
(* Camera.readPixelList: the dict built from the lines of the file, or the *)
(* IndexError raised at the PixType line (pixInfo[8], camera.py 131), or   *)
(* the ValueError raised after the last line.                              *)
(***************************************************************************)
readPixelList(cameraConfigFile) ==
    LET lines == cameraConfigFile.pixels
        pixels ==
            [pixel_diameter |-> IF cameraConfigFile.pixType = Nothing THEN UNSET
                                ELSE cameraConfigFile.pixType[1].diameter,
             pixel_shape |-> IF cameraConfigFile.pixType = Nothing THEN UNSET
                             ELSE cameraConfigFile.pixType[1].shape,
             pixel_spacing |-> UNSET * LenScale,
             lightguide_efficiency_angle_file |->
                 IF cameraConfigFile.pixType = Nothing THEN "none"
                 ELSE cameraConfigFile.pixType[1].files[1],
             lightguide_efficiency_wavelength_file |->
                 IF cameraConfigFile.pixType = Nothing
                    \/ Len(cameraConfigFile.pixType[1].files) < 2
                 THEN "none"
                 ELSE cameraConfigFile.pixType[1].files[2],
             rotateAngle |-> cameraConfigFile.rotate,
             x |-> [k \in 1..Len(lines) |-> lines[k].x],
             y |-> [k \in 1..Len(lines) |-> lines[k].y],
             pixID |-> [k \in 1..Len(lines) |-> lines[k].id],
             pixOn |-> [k \in 1..Len(lines) |->
                          IF lines[k].on = Nothing THEN TRUE ELSE lines[k].on[1] # 0]]
    IN  IF cameraConfigFile.pixType # Nothing
           /\ Len(cameraConfigFile.pixType[1].files) = 0
            THEN [error |-> "IndexError", pixels |-> None]
        ELSE IF pixels.pixel_diameter = UNSET
            THEN [error |-> "ValueError: pixel diameter", pixels |-> None]
        ELSE IF pixels.pixel_shape \notin {1, 2, 3}
            THEN [error |-> "ValueError: pixel shape", pixels |-> None]
        ELSE [error |-> None, pixels |-> pixels]

\* cosine and sine of an angle given in quarter turns
CosQ(q) == CASE q % 4 = 0 -> 1 [] q % 4 = 1 -> 0 [] q % 4 = 2 -> -1 [] OTHER -> 0
SinQ(q) == CASE q % 4 = 0 -> 0 [] q % 4 = 1 -> 1 [] q % 4 = 2 -> 0 [] OTHER -> -1

(***************************************************************************)
(* Camera._rotatePixels: mirror y for a dual-mirror telescope, rotate by   *)
(* the angle of the file plus the angle of the camera, set the orientation *)
(* (in degrees).                                                           *)
(***************************************************************************)
_rotatePixels(telescopeName, pixels) ==
    LET n == Len(pixels.x)
        yFlip == IF isTwoMirrorTelescope(telescopeName)
                 THEN [k \in 1..n |-> (-1) * pixels.y[k]]
                 ELSE pixels.y
        rotateAngle == pixels.rotateAngle + CAMERA_ROTATE_ANGLE(telescopeName)
        xRot == IF rotateAngle # 0
                THEN [k \in 1..n |->
                        pixels.x[k] * CosQ(rotateAngle) - yFlip[k] * SinQ(rotateAngle)]
                ELSE pixels.x
        yRot == IF rotateAngle # 0
                THEN [k \in 1..n |->
                        pixels.x[k] * SinQ(rotateAngle) + yFlip[k] * CosQ(rotateAngle)]
                ELSE yFlip
        hex == pixels.pixel_shape = 1 \/ pixels.pixel_shape = 3
        orientation ==
            (IF hex /\ pixels.pixel_shape = 3 THEN 30 ELSE 0)
            + (IF hex /\ rotateAngle > 0 THEN 90 * rotateAngle ELSE 0)
    IN  [pixel_diameter |-> pixels.pixel_diameter,
         pixel_shape |-> pixels.pixel_shape,
         pixel_spacing |-> pixels.pixel_spacing,
         lightguide_efficiency_angle_file |-> pixels.lightguide_efficiency_angle_file,
         lightguide_efficiency_wavelength_file |->
             pixels.lightguide_efficiency_wavelength_file,
         rotateAngle |-> pixels.rotateAngle,
         x |-> xRot, y |-> yRot,
         pixID |-> pixels.pixID, pixOn |-> pixels.pixOn,
         orientation |-> orientation]

(***************************************************************************)
(* Camera.__init__.  The focal length is checked before the pixel list is  *)
(* read; an exception leaves no instance behind.                           *)
(***************************************************************************)
\* the constructor accepting a focal length of zero
CameraInitResult_zero(telescopeName, cameraConfigFile, focalLength) ==
    IF focalLength < 0
    THEN [error |-> "ValueError: focal length", read |-> FALSE, pixels |-> None]
    ELSE LET rd == readPixelList(cameraConfigFile)
         IN  IF rd.error # None
             THEN [error |-> rd.error, read |-> TRUE, pixels |-> None]
             ELSE [error |-> None, read |-> TRUE,
                   pixels |-> _rotatePixels(telescopeName, rd.pixels)]

CameraInitResult(telescopeName, cameraConfigFile, focalLength) ==
    IF focalLength <= 0
    THEN [error |-> "ValueError: focal length", read |-> FALSE, pixels |-> None]
    ELSE LET rd == readPixelList(cameraConfigFile)
         IN  IF rd.error # None
             THEN [error |-> rd.error, read |-> TRUE, pixels |-> None]
             ELSE [error |-> None, read |-> TRUE,
                   pixels |-> _rotatePixels(telescopeName, rd.pixels)]

CameraInit(telescopeName, cameraConfigFile, focalLength) ==
    /\ camState = "none"
    /\ \E r \in {CameraInitResult(telescopeName, cameraConfigFile, focalLength)} :
           /\ camState' = IF r.error = None THEN "ok" ELSE "failed"
           /\ camError' = r.error
           /\ pixelListRead' = r.read
           /\ _focalLength' = IF r.error = None THEN focalLength ELSE None
           /\ _pixels' = r.pixels
    /\ _neighbours' = Nothing
    /\ _edgePixelIndices' = Nothing
    /\ camRet' = [op |-> "__init__", telescopeName |-> telescopeName,
                  focalLength |-> focalLength, pixType |-> cameraConfigFile.pixType]
    /\ UNCHANGED <<nCalcNeighbourPixels, nCalcEdgePixels, nCalcFOV, camCalls>>
    /\ UNCHANGED <<psfVars, effVars>>

(***************************************************************************)
(* Neighbour search.  Pixel indices are 1-based here (0-based in the       *)
(* code).  Radii are in tenths of the length unit.  A neighbour list of    *)
(* the code never holds an index twice, so it is kept as a set.            *)
(***************************************************************************)
Dist2(xPos, yPos, i, j) ==
    (xPos[i] - xPos[j]) * (xPos[i] - xPos[j])
    + (yPos[i] - yPos[j]) * (yPos[i] - yPos[j])

\* the ball without its boundary
query_ball_point_open(xPos, yPos, i, radius) ==
    { j \in 1..Len(xPos) : 100 * Dist2(xPos, yPos, i, j) < radius * radius }

\* KDTree.query_ball_point(p, r): the points at distance <= r of p
query_ball_point(xPos, yPos, i, radius) ==
    { j \in 1..Len(xPos) : 100 * Dist2(xPos, yPos, i, j) <= radius * radius }

\* Camera._findNeighbours: the ball around each pixel, the pixel itself removed
_findNeighbours(xPos, yPos, radius) ==
    [i \in 1..Len(xPos) |-> query_ball_point(xPos, yPos, i, radius) \ {i}]

\* the test of camera.py 414-416 for pixel j seen from pixel i
AdjacentInRowOrColumn(xPos, yPos, i, j, radius, rowColoumnDist) ==
    /\ \/ 10 * Abs(xPos[i] - xPos[j]) < rowColoumnDist
       \/ 10 * Abs(yPos[i] - yPos[j]) < rowColoumnDist
    /\ 10000 * Dist2(xPos, yPos, i, j)
         < ADJACENT_DIST_FACTOR * ADJACENT_DIST_FACTOR * radius * radius

\* the second pass run for every pixel, whatever its neighbour count
_findAdjacentNeighbourPixels_always(xPos, yPos, radius, rowColoumnDist) ==
    LET neighbours == _findNeighbours(xPos, yPos, radius)
    IN  [i \in 1..Len(xPos) |->
            neighbours[i] \cup
            { j \in 1..Len(xPos) :
                /\ j # i
                /\ AdjacentInRowOrColumn(xPos, yPos, i, j, radius, rowColoumnDist) }]

\* the second pass run for pixels with fewer than 3 neighbours
_findAdjacentNeighbourPixels_three(xPos, yPos, radius, rowColoumnDist) ==
    LET neighbours == _findNeighbours(xPos, yPos, radius)
    IN  [i \in 1..Len(xPos) |->
            IF Cardinality(neighbours[i]) < 3
            THEN neighbours[i] \cup
                 { j \in 1..Len(xPos) :
                     /\ j # i
                     /\ AdjacentInRowOrColumn(xPos, yPos, i, j, radius, rowColoumnDist) }
            ELSE neighbours[i]]

\* Camera._findAdjacentNeighbourPixels
_findAdjacentNeighbourPixels(xPos, yPos, radius, rowColoumnDist) ==
    LET neighbours == _findNeighbours(xPos, yPos, radius)
    IN  [i \in 1..Len(xPos) |->
            IF Cardinality(neighbours[i]) < 4
            THEN neighbours[i] \cup
                 { j \in 1..Len(xPos) :
                     /\ j # i
                     /\ j \notin neighbours[i]
                     /\ AdjacentInRowOrColumn(xPos, yPos, i, j, radius, rowColoumnDist) }
            ELSE neighbours[i]]

\* the neighbour search with a square radius of 1.5 x diameter, which reaches
\* the diagonal of a regular grid
_calcNeighbourPixels_diagonal(pixels) ==
    IF pixels.pixel_shape = 1 \/ pixels.pixel_shape = 3
    THEN _findNeighbours(pixels.x, pixels.y,
                         PMT_NEIGHBOR_RADIUS_FACTOR * pixels.pixel_diameter)
    ELSE _findAdjacentNeighbourPixels(
             pixels.x, pixels.y,
             15 * pixels.pixel_diameter,
             SIPM_ROW_COLUMN_DIST_FACTOR * pixels.pixel_diameter)

\* Camera._calcNeighbourPixels
_calcNeighbourPixels(pixels) ==
    IF pixels.pixel_shape = 1 \/ pixels.pixel_shape = 3
    THEN _findNeighbours(pixels.x, pixels.y,
                         PMT_NEIGHBOR_RADIUS_FACTOR * pixels.pixel_diameter)
    ELSE _findAdjacentNeighbourPixels(
             pixels.x, pixels.y,
             SIPM_NEIGHBOR_RADIUS_FACTOR * pixels.pixel_diameter,
             SIPM_ROW_COLUMN_DIST_FACTOR * pixels.pixel_diameter)

\* the edge test without the "on" flag
_calcEdgePixels_anyPixel(pixels, neighbours) ==
    { i \in 1..Len(pixels.x) :
        IF pixels.pixel_shape = 1 \/ pixels.pixel_shape = 3
        THEN Cardinality(neighbours[i]) < 6
        ELSE Cardinality(neighbours[i]) < 4 }

\* Camera._calcEdgePixels
_calcEdgePixels(pixels, neighbours) ==
    { i \in 1..Len(pixels.x) :
        IF pixels.pixel_shape = 1 \/ pixels.pixel_shape = 3
        THEN pixels.pixOn[i] /\ Cardinality(neighbours[i]) < 6
        ELSE pixels.pixOn[i] /\ Cardinality(neighbours[i]) < 4 }

\* Camera._calcFOV.  The division by len(edgePixelIndices) raises when the
\* list is empty.  The field of view is 2*atan(averageEdgeDistance/focalLength)
\* in degrees; it is kept as the two arguments of the quotient.
_calcFOV(xPixel, yPixel, edgePixelIndices, focalLength) ==
    LET dist == [i \in 1..Len(xPixel) |->
                    ISqrt(LenScale * LenScale
                          * (xPixel[i] * xPixel[i] + yPixel[i] * yPixel[i]))]
        total == SumOver(dist, edgePixelIndices)
    IN  IF Cardinality(edgePixelIndices) = 0
        THEN [status |-> "ZeroDivisionError", value |-> None]
        ELSE LET averageEdgeDistance == total \div Cardinality(edgePixelIndices)
             IN  [status |-> "ok",
                  value |-> [fovAtanNum |-> averageEdgeDistance,
                             fovAtanDen |-> focalLength * LenScale,
                             averageEdgeDistance |-> averageEdgeDistance]]

(***************************************************************************)
(* The accessors, called with their default arguments.  Each yields what   *)
(* it returns, how many times the computations ran, and the value of the   *)
(* cache field after the call.                                             *)
(***************************************************************************)
\* Camera.getNeighbourPixels: the computed map is returned, not stored
getNeighbourPixelsCall ==
    IF _neighbours = Nothing
    THEN [ret |-> _calcNeighbourPixels(_pixels), ranNeighbours |-> 1,
          neighbours |-> _neighbours]
    ELSE [ret |-> _neighbours[1], ranNeighbours |-> 0, neighbours |-> _neighbours]

\* Camera.getEdgePixels: the computed list is returned, not stored
getEdgePixelsCall ==
    IF _edgePixelIndices = Nothing
    THEN LET nb == getNeighbourPixelsCall
         IN  [ret |-> _calcEdgePixels(_pixels, nb.ret), ranEdge |-> 1,
              ranNeighbours |-> nb.ranNeighbours, neighbours |-> nb.neighbours,
              edgePixelIndices |-> _edgePixelIndices]
    ELSE [ret |-> _edgePixelIndices[1], ranEdge |-> 0, ranNeighbours |-> 0,
          neighbours |-> _neighbours, edgePixelIndices |-> _edgePixelIndices]

getNeighbourPixels ==
    /\ camState = "ok"
    /\ camCalls < MaxCalls
    /\ \E c \in {getNeighbourPixelsCall} :
           /\ _neighbours' = c.neighbours
           /\ nCalcNeighbourPixels' = nCalcNeighbourPixels + c.ranNeighbours
           /\ camRet' = [op |-> "getNeighbourPixels", status |-> "ok", value |-> c.ret]
    /\ camCalls' = camCalls + 1
    /\ UNCHANGED <<camState, camError, pixelListRead, _focalLength, _pixels,
                   _edgePixelIndices, nCalcEdgePixels, nCalcFOV>>
    /\ UNCHANGED <<psfVars, effVars>>

getEdgePixels ==
    /\ camState = "ok"
    /\ camCalls < MaxCalls
    /\ \E c \in {getEdgePixelsCall} :
           /\ _neighbours' = c.neighbours
           /\ _edgePixelIndices' = c.edgePixelIndices
           /\ nCalcNeighbourPixels' = nCalcNeighbourPixels + c.ranNeighbours
           /\ nCalcEdgePixels' = nCalcEdgePixels + c.ranEdge
           /\ camRet' = [op |-> "getEdgePixels", status |-> "ok", value |-> c.ret]
    /\ camCalls' = camCalls + 1
    /\ UNCHANGED <<camState, camError, pixelListRead, _focalLength, _pixels, nCalcFOV>>
    /\ UNCHANGED <<psfVars, effVars>>

\* Camera.calcFOV
calcFOV ==
    /\ camState = "ok"
    /\ camCalls < MaxCalls
    /\ \E c \in {getEdgePixelsCall} :
       \E r \in {_calcFOV(_pixels.x, _pixels.y, c.ret, _focalLength)} :
           /\ _neighbours' = c.neighbours
           /\ _edgePixelIndices' = c.edgePixelIndices
           /\ nCalcNeighbourPixels' = nCalcNeighbourPixels + c.ranNeighbours
           /\ nCalcEdgePixels' = nCalcEdgePixels + c.ranEdge
           /\ camRet' = [op |-> "calcFOV", status |-> r.status, value |-> r.value,
                         edgePixelIndices |-> c.ret]
    /\ nCalcFOV' = nCalcFOV + 1
    /\ camCalls' = camCalls + 1
    /\ UNCHANGED <<camState, camError, pixelListRead, _focalLength, _pixels>>
    /\ UNCHANGED <<psfVars, effVars>>

(***************************************************************************)
(* Camera.getCameraFillFactor.  pixel_spacing is kept in units of          *)
(* 1/LenScale; while it holds the sentinel, it is replaced by the smallest *)
(* positive distance between two pixels.  np.min raises ValueError when no *)
(* distance is positive.  The fill factor is kept as the two arguments of  *)
(* the quotient (pixel_diameter/pixel_spacing)**2.                         *)
(***************************************************************************)
PixelDistances2(pixels) ==
    { Dist2(pixels.x, pixels.y, i, j) : i \in 1..Len(pixels.x), j \in 1..Len(pixels.x) }

FillFactor(pixels) ==
    [num |-> (pixels.pixel_diameter * LenScale) * (pixels.pixel_diameter * LenScale),
     den |-> pixels.pixel_spacing * pixels.pixel_spacing]

\* the computed spacing replaces the diameter as well
getCameraFillFactorCall_rescales ==
    LET positive == PixelDistances2(_pixels) \ {0}
        smallest == CHOOSE m \in positive : \A k \in positive : m <= k
        spacing == ISqrt(LenScale * LenScale * smallest)
    IN  IF positive = {}
        THEN [status |-> "ValueError", value |-> None, pixels |-> _pixels]
        ELSE [status |-> "ok",
              value |-> [num |-> 1, den |-> 1],
              pixels |-> [_pixels EXCEPT !.pixel_spacing = spacing,
                                         !.pixel_diameter = spacing]]

getCameraFillFactorCall ==
    IF _pixels.pixel_spacing = UNSET * LenScale
    THEN LET positive == PixelDistances2(_pixels) \ {0}
             smallest == CHOOSE m \in positive : \A k \in positive : m <= k
             pixels == [_pixels EXCEPT
                           !.pixel_spacing = ISqrt(LenScale * LenScale * smallest)]
         IN  IF positive = {}
             THEN [status |-> "ValueError", value |-> None, pixels |-> _pixels]
             ELSE [status |-> "ok", value |-> FillFactor(pixels), pixels |-> pixels]
    ELSE [status |-> "ok", value |-> FillFactor(_pixels), pixels |-> _pixels]

getCameraFillFactor ==
    /\ camState = "ok"
    /\ camCalls < MaxCalls
    /\ \E c \in {getCameraFillFactorCall} :
           /\ _pixels' = c.pixels
           /\ camRet' = [op |-> "getCameraFillFactor", status |-> c.status,
                         value |-> c.value]
    /\ camCalls' = camCalls + 1
    /\ UNCHANGED <<camState, camError, pixelListRead, _focalLength, _neighbours,
                   _edgePixelIndices, nCalcNeighbourPixels, nCalcEdgePixels,
                   nCalcFOV>>
    /\ UNCHANGED <<psfVars, effVars>>

\* a getter: the named entry of _pixels is returned and nothing is assigned
Getter(op, key) ==
    /\ camState = "ok"
    /\ camCalls < MaxCalls
    /\ camRet' = [op |-> op, status |-> "ok", value |-> _pixels[key]]
    /\ camCalls' = camCalls + 1
    /\ UNCHANGED <<camState, camError, pixelListRead, _focalLength, _pixels,
                   _neighbours, _edgePixelIndices, nCalcNeighbourPixels,
                   nCalcEdgePixels, nCalcFOV>>
    /\ UNCHANGED <<psfVars, effVars>>

getPixelDiameter == Getter("getPixelDiameter", "pixel_diameter")

getPixelShape == Getter("getPixelShape", "pixel_shape")

getLightguideEfficiencyAngleFileName ==
    Getter("getLightguideEfficiencyAngleFileName", "lightguide_efficiency_angle_file")

getLightguideEfficiencyWavelengthFileName ==
    Getter("getLightguideEfficiencyWavelengthFileName",
           "lightguide_efficiency_wavelength_file")

CameraStart ==
    /\ camState = "none"
    /\ camError = None
    /\ pixelListRead = FALSE
    /\ _focalLength = None
    /\ _pixels = None
    /\ _neighbours = Nothing
    /\ _edgePixelIndices = Nothing
    /\ nCalcNeighbourPixels = 0
    /\ nCalcEdgePixels = 0
    /\ nCalcFOV = 0
    /\ camCalls = 0
    /\ camRet = [op |-> None]

CameraNext ==
    \/ /\ camState = "none"
       /\ \E telescopeName \in TelescopeNames, cameraConfigFile \in ConfigFiles,
             focalLength \in FocalLengths :
              CameraInit(telescopeName, cameraConfigFile, focalLength)
    \/ getNeighbourPixels
    \/ getEdgePixels
    \/ calcFOV

\* the layouts every operation of the Camera is run on: the three-pixel
\* pool (one, two or three pixels), the grid and the ring
LayoutFiles ==
    { f \in ValidFiles : f.pixType[1].diameter = TriPool.diameter }
        \cup PixTypeFiles \cup GridFiles \cup IslandFiles

\* every operation of the Camera
CameraOperations ==
    \/ /\ camState = "none"
       /\ \E telescopeName \in TelescopeNames, cameraConfigFile \in LayoutFiles,
             focalLength \in FocalLengths :
              CameraInit(telescopeName, cameraConfigFile, focalLength)
    \/ getNeighbourPixels
    \/ getEdgePixels
    \/ calcFOV
    \/ getCameraFillFactor
    \/ getPixelDiameter
    \/ getPixelShape
    \/ getLightguideEfficiencyAngleFileName
    \/ getLightguideEfficiencyWavelengthFileName

(***************************************************************************)
(* PSFImage.  Photon positions are integers (cm).  Radii and PSF values    *)
(* are fixed-point numbers with denominator PsfScale; square roots are     *)
(* rounded down.  A fraction is kept in tenths (8 is 0.8).  A quotient is  *)
(* kept as [num, den].                                                     *)
(***************************************************************************)
\* largest number of listings ingested into one image
MaxReads == 2

\* largest number of photon lines in a photon list file
MaxPhotons == 5

PsfScale == 1000
\* precision kept in the quotient deltaNumber * SCALE / sqrt(targetNumber)
StepScale == 100
\* MAX_ITER of _findPSF (psf_analysis.py 268)
MAX_ITER == 100
\* pi as the quotient PI_NUM / PI_DEN
PI_NUM == 355
PI_DEN == 113

Fractions == {5, 8, 10}
Units == {"cm", "deg"}
\* focal lengths given to the constructor (Nothing: not given)
PsfFocalLengths == {Nothing, Some(10)}
\* values given to setPSF
SetValues == {1500}

\* division rounding towards zero
TruncDiv(a, b) ==
    IF a >= 0 THEN a \div b ELSE -((-a) \div b)

RECURSIVE SumSeq(_)
SumSeq(q) == IF q = << >> THEN 0 ELSE Head(q) + SumSeq(Tail(q))

SquareSeq(q) == [k \in 1..Len(q) |-> q[k] * q[k]]

(***************************************************************************)
(* Photon list files: annotation lines ("falling on an area of"), a        *)
(* comment line, then photon lines taken from a pool of positions.  A      *)
(* photon line holds x (third word) and y (fourth word); y is Nothing on a *)
(* line that ends after its third word.                                    *)
(***************************************************************************)
PhotonPool == << P(-2, 0), P(-2, 1), P(-1, 0), P(2, 0), P(-2, 0), P(0, 0) >>

AnnotationLine(n, area) == [kind |-> "annotation", photons |-> n, area |-> area]
CommentLine == [kind |-> "comment"]
PhotonLines(S) ==
    LET idx == SeqOfSet(S)
    IN  [k \in 1..Len(idx) |->
            [kind |-> "photon", x |-> PhotonPool[idx[k]].x,
             y |-> Some(PhotonPool[idx[k]].y)]]

\* a photon line that ends after its third word
ShortPhotonLine(x) == [kind |-> "photon", x |-> x, y |-> Nothing]

\* one annotation line, a comment line, and up to MaxPhotons photon lines
PlainFiles ==
    { <<AnnotationLine(10, 400), CommentLine>> \o PhotonLines(S) :
        S \in { T \in SUBSET (1..Len(PhotonPool)) : Cardinality(T) <= MaxPhotons } }

\* the annotation lines of a file: none, one, or two that agree or differ in
\* the area they report
AnnotationChoices ==
    { << >>,
      <<AnnotationLine(10, 900)>>,
      <<AnnotationLine(10, 400), AnnotationLine(6, 400)>>,
      <<AnnotationLine(10, 400), AnnotationLine(6, 900)>>,
      <<AnnotationLine(10, 900), AnnotationLine(6, 400)>> }

AnnotatedFiles ==
    { <<a[1], CommentLine>> \o PhotonLines(S) \o Tail(a) :
        a \in AnnotationChoices \ {<< >>}, S \in {{1, 2}, {1, 4}} }
    \cup { <<CommentLine>> \o PhotonLines({1, 2}) }

\* files with a photon line that ends after its third word
ShortLineFiles ==
    { <<AnnotationLine(10, 400)>> \o PhotonLines(S) \o <<ShortPhotonLine(1)>> \o PhotonLines(T) :
        S \in {{}, {1, 2}}, T \in {{}, {3}} }

\* four photons on a ring of radius 2 around (0,0)
RingPhotons == << P(2, 0), P(-2, 0), P(0, 2), P(0, -2) >>

RingFiles ==
    { <<AnnotationLine(10, 400), CommentLine>>
      \o [k \in 1..Len(RingPhotons) |->
            [kind |-> "photon", x |-> RingPhotons[k].x, y |-> Some(RingPhotons[k].y)]] }

\* three photons at (0,0) between one at (2,0) and one at (-2,0)
ClusterPhotons == << P(0, 0), P(2, 0), P(0, 0), P(-2, 0), P(0, 0) >>

ClusterFiles ==
    { <<AnnotationLine(10, 400), CommentLine>>
      \o [k \in 1..Len(ClusterPhotons) |->
            [kind |-> "photon", x |-> ClusterPhotons[k].x,
             y |-> Some(ClusterPhotons[k].y)]] }

SimtelFiles ==
    PlainFiles \cup AnnotatedFiles \cup ShortLineFiles \cup RingFiles \cup ClusterFiles

\* the scattering areas given to the constructor (Nothing: not given)
TotalScatteredAreas == {Nothing, Some(400)}

(***************************************************************************)
(* PSFImage.__init__                                                       *)
(***************************************************************************)
PSFImageInit(focalLength, totalScatteredArea) ==
    /\ psfState = "none"
    /\ psfState' = "created"
    /\ photonPosX' = << >>
    /\ photonPosY' = << >>
    /\ centroidX' = Nothing
    /\ centroidY' = Nothing
    /\ _totalArea' = totalScatteredArea
    /\ _storedPSF' = [f \in Fractions |-> Nothing]
    /\ _hasFocalLength' = (focalLength # Nothing)
    /\ _cmToDeg' = IF focalLength # Nothing
                   THEN Some([num |-> 180 * PI_DEN, den |-> PI_NUM * focalLength[1]])
                   ELSE Nothing
    /\ UNCHANGED <<_totalPhotons, _numberOfDetectedPhotons, _effectiveArea,
                   nFindPSF, nSetPSF, psfCalls, psfRet>>
    /\ UNCHANGED <<camVars, effVars>>

(***************************************************************************)
(* PSFImage._processSimtelLine, on the state [x, y, totalPhotons,          *)
(* totalArea, warnings, error] of the ingestion.  A photon line without a  *)
(* fourth word raises IndexError at words[3], after x was appended.        *)
(***************************************************************************)
\* the line handler replacing the area by the one of every annotation line
_processSimtelLine_lastArea(st, line) ==
    IF line.kind = "annotation"
    THEN [st EXCEPT !.totalPhotons = @ + line.photons,
                    !.totalArea = Some(line.area),
                    !.warnings = IF st.totalArea # Nothing /\ st.totalArea # Some(line.area)
                                 THEN @ + 1 ELSE @]
    ELSE IF line.kind = "comment"
    THEN st
    ELSE IF line.y = Nothing
    THEN [st EXCEPT !.x = Append(@, line.x), !.error = "IndexError"]
    ELSE [st EXCEPT !.x = Append(@, line.x), !.y = Append(@, line.y[1])]

\* the line handler keeping the photon count of the last annotation line only
_processSimtelLine_lastCount(st, line) ==
    IF line.kind = "annotation"
    THEN [st EXCEPT !.totalPhotons = line.photons,
                    !.totalArea = IF @ = Nothing THEN Some(line.area) ELSE @,
                    !.warnings = IF st.totalArea # Nothing /\ st.totalArea # Some(line.area)
                                 THEN @ + 1 ELSE @]
    ELSE IF line.kind = "comment"
    THEN st
    ELSE IF line.y = Nothing
    THEN [st EXCEPT !.x = Append(@, line.x), !.error = "IndexError"]
    ELSE [st EXCEPT !.x = Append(@, line.x), !.y = Append(@, line.y[1])]

_processSimtelLine(st, line) ==
    IF line.kind = "annotation"
    THEN [st EXCEPT !.totalPhotons = @ + line.photons,
                    !.totalArea = IF @ = Nothing THEN Some(line.area) ELSE @,
                    !.warnings = IF st.totalArea # Nothing /\ st.totalArea # Some(line.area)
                                 THEN @ + 1 ELSE @]
    ELSE IF line.kind = "comment"
    THEN st
    ELSE IF line.y = Nothing
    THEN [st EXCEPT !.x = Append(@, line.x), !.error = "IndexError"]
    ELSE [st EXCEPT !.x = Append(@, line.x), !.y = Append(@, line.y[1])]

\* the loop of readSimtelFile (psf_analysis.py 96-97); an exception ends it
RECURSIVE ProcessLines(_, _)
ProcessLines(st, file) ==
    IF file = << >> \/ st.error # None THEN st
    ELSE ProcessLines(_processSimtelLine(st, Head(file)), Tail(file))

\* PSFImage._isPhotonPositionsOK
_isPhotonPositionsOK(x, y) ==
    /\ Len(x) # 0
    /\ Len(y) # 0
    /\ Len(x) = Len(y)

(***************************************************************************)
(* PSFImage.readSimtelFile.  The emitted-photon total restarts at 0 (line  *)
(* 94); the lines are appended to the positions the image holds.  The      *)
(* outcome is the exception of a line (IndexError), the RuntimeError of    *)
(* the position check, the exception of the effective area (TypeError when *)
(* no area is known, ZeroDivisionError when no photon was emitted), or     *)
(* success.  The fields assigned before an exception keep their value.     *)
(* The record of the call keeps the listing, the fields of the image       *)
(* before the call, and the rank of the call among the ingestions.         *)
(***************************************************************************)
\* the ingestion starting from empty position lists
readSimtelFileResult_clearsPositions(file) ==
    LET st == ProcessLines([x |-> << >>, y |-> << >>, totalPhotons |-> 0,
                            totalArea |-> _totalArea, warnings |-> 0,
                            error |-> None], file)
        status == IF st.error # None THEN st.error
                  ELSE IF ~_isPhotonPositionsOK(st.x, st.y) THEN "RuntimeError"
                  ELSE IF st.totalArea = Nothing THEN "TypeError"
                  ELSE IF st.totalPhotons = 0 THEN "ZeroDivisionError"
                  ELSE "ok"
    IN  [st |-> st, status |-> status,
         positionsOK |-> st.error = None /\ _isPhotonPositionsOK(st.x, st.y)]

readSimtelFileResult(file) ==
    LET st == ProcessLines([x |-> photonPosX, y |-> photonPosY, totalPhotons |-> 0,
                            totalArea |-> _totalArea, warnings |-> 0,
                            error |-> None], file)
        status == IF st.error # None THEN st.error
                  ELSE IF ~_isPhotonPositionsOK(st.x, st.y) THEN "RuntimeError"
                  ELSE IF st.totalArea = Nothing THEN "TypeError"
                  ELSE IF st.totalPhotons = 0 THEN "ZeroDivisionError"
                  ELSE "ok"
    IN  [st |-> st, status |-> status,
         positionsOK |-> st.error = None /\ _isPhotonPositionsOK(st.x, st.y)]

readSimtelFile(file) ==
    /\ psfState = "created"
    /\ \E r \in {readSimtelFileResult(file)} :
           /\ photonPosX' = r.st.x
           /\ photonPosY' = r.st.y
           /\ _totalPhotons' = Some(r.st.totalPhotons)
           /\ _totalArea' = r.st.totalArea
           /\ IF r.positionsOK
              THEN /\ centroidX' = Some([num |-> SumSeq(r.st.x), den |-> Len(r.st.x)])
                   /\ centroidY' = Some([num |-> SumSeq(r.st.y), den |-> Len(r.st.y)])
                   /\ _numberOfDetectedPhotons' = Some(Len(r.st.x))
              ELSE UNCHANGED <<centroidX, centroidY, _numberOfDetectedPhotons>>
           /\ IF r.status = "ok"
              THEN _effectiveArea' = Some([num |-> Len(r.st.x) * r.st.totalArea[1],
                                      den |-> r.st.totalPhotons])
              ELSE UNCHANGED _effectiveArea
           /\ psfRet' = [op |-> "readSimtelFile", status |-> r.status, file |-> file,
                         totalScatteredArea |-> _totalArea,
                         warnings |-> r.st.warnings,
                         before |-> [photonPosX |-> photonPosX,
                                     photonPosY |-> photonPosY,
                                     centroidX |-> centroidX,
                                     centroidY |-> centroidY,
                                     _numberOfDetectedPhotons |->
                                         _numberOfDetectedPhotons,
                                     _effectiveArea |-> _effectiveArea],
                         nth |-> IF psfRet.op = "readSimtelFile"
                                 THEN psfRet.nth + 1 ELSE 1]
    /\ UNCHANGED <<psfState, _storedPSF, _hasFocalLength, _cmToDeg, nFindPSF,
                   nSetPSF, psfCalls>>
    /\ UNCHANGED <<camVars, effVars>>

(***************************************************************************)
(* The solver.  All of it reads the photon positions and the centroid of   *)
(* the image.  With N photons and sums SX, SY, the squared distance of     *)
(* photon k from the centroid is CentredSq(k) / N^2.                       *)
(***************************************************************************)
CentredSq(k) ==
    LET N == Len(photonPosX)
        u == N * photonPosX[k] - centroidX[1].num
        v == N * photonPosY[k] - centroidY[1].num
    IN  u * u + v * v

\* rr2 of psf_analysis.py 346 for every photon, in units of 1 / PsfScale^2
PhotonRR2 ==
    LET N == Len(photonPosX)
    IN  [k \in 1..N |-> (CentredSq(k) * PsfScale * PsfScale) \div (N * N)]

\* PSFImage._sumPhotonsInRadius: photons with rr2 < radius**2
_sumPhotonsInRadius(rr2, radius) ==
    Cardinality({ k \in DOMAIN rr2 : rr2[k] < radius * radius })

\* radiusSig of _findPSF (psf_analysis.py 256-260)
RadiusSig ==
    LET N == Len(photonPosX)
        varX == N * SumSeq(SquareSeq(photonPosX)) - centroidX[1].num * centroidX[1].num
        varY == N * SumSeq(SquareSeq(photonPosY)) - centroidY[1].num * centroidY[1].num
    IN  ISqrt(((varX + varY) * PsfScale * PsfScale) \div (N * N))

\* the step cut so that the radius passes zero by one unit
HalveStep_belowZero(currentRadius, dr) ==
    IF currentRadius + dr < 0 THEN -currentRadius - 1 ELSE dr

\* the inner loop of psf_analysis.py 274-275: halve dr while currentRadius + dr < 0
RECURSIVE HalveStep(_, _)
HalveStep(currentRadius, dr) ==
    IF currentRadius + dr < 0 THEN HalveStep(currentRadius, TruncDiv(dr, 2)) ELSE dr

\* one pass of the loop body of psf_analysis.py 272-279.  c holds targetNumber
\* (in tenths), SCALE / sqrt(targetNumber) as the quotient scaleNum / scaleDen,
\* N, and the squared distances rr2 of the photons.
PrimaryStep(c, st) ==
    LET dr == HalveStep(st.currentRadius,
                        TruncDiv((-st.deltaNumber) * c.scaleNum, c.scaleDen))
        newRadius == st.currentRadius + dr
        newDelta == 10 * _sumPhotonsInRadius(c.rr2, newRadius) - c.targetNumber
    IN  [foundRadius |-> 100 * Abs(newDelta) < c.N, currentRadius |-> newRadius,
         deltaNumber |-> newDelta, nIter |-> st.nIter + 1]

\* the loop making all its passes, whatever the test of a pass says
RECURSIVE PrimaryIteration_ignoresTest(_, _, _)
PrimaryIteration_ignoresTest(c, st, n) ==
    IF st.nIter < 0 \/ n = 0
    THEN st
    ELSE IF n = 1
    THEN PrimaryStep(c, st)
    ELSE PrimaryIteration_ignoresTest(c, PrimaryIteration_ignoresTest(c, st, n \div 2),
                                      n - n \div 2)

\* the loop of psf_analysis.py 271: the body is repeated while foundRadius is
\* false and passes remain; the n remaining passes are taken half by half
RECURSIVE PrimaryIteration(_, _, _)
PrimaryIteration(c, st, n) ==
    IF st.foundRadius \/ n = 0
    THEN st
    ELSE IF n = 1
    THEN PrimaryStep(c, st)
    ELSE PrimaryIteration(c, PrimaryIteration(c, st, n \div 2), n - n \div 2)

\* one pass of the loop of scan (psf_analysis.py 321-328).  p holds the
\* arguments of scan; the step dr is radiusSig * drNum / drDen and pass k
\* starts at radMin + k * dr
ScanPass(p, st) ==
    LET r0 == p.radMin + (st.k * p.drNum * p.radiusSig) \div p.drDen
        r1 == p.radMin + ((st.k + 1) * p.drNum * p.radiusSig) \div p.drDen
        s0 == 10 * _sumPhotonsInRadius(p.rr2, r0)
        s1 == 10 * _sumPhotonsInRadius(p.rr2, r1)
        foundRadius == s0 < p.targetNumber /\ s1 > p.targetNumber
    IN  [k |-> st.k + 1, foundRadius |-> foundRadius,
         left |-> foundRadius \/ r1 > p.radMax, r0 |-> r0, r1 |-> r1]

\* the loop of scan (psf_analysis.py 320): passes are made until one of the
\* two breaks is taken; the n passes are taken half by half
RECURSIVE ScanLoop(_, _, _)
ScanLoop(p, st, n) ==
    IF st.left \/ n = 0
    THEN st
    ELSE IF n = 1
    THEN ScanPass(p, st)
    ELSE ScanLoop(p, ScanLoop(p, st, n \div 2), n - n \div 2)

\* the passes after which r1 > radMax at the latest
ScanPasses(p) ==
    ((p.radMax - p.radMin + 1) * p.drDen) \div (p.drNum * p.radiusSig) + 2

\* scan of _findRadiusByScanning (psf_analysis.py 306-333)
scan(rr2, targetNumber, radiusSig, drNum, drDen, radMin, radMax) ==
    LET p == [rr2 |-> rr2, targetNumber |-> targetNumber, radiusSig |-> radiusSig,
              drNum |-> drNum, drDen |-> drDen, radMin |-> radMin, radMax |-> radMax]
        st == ScanLoop(p, [k |-> 0, foundRadius |-> FALSE, left |-> FALSE,
                           r0 |-> radMin, r1 |-> radMin], ScanPasses(p))
    IN  IF st.foundRadius
        THEN [status |-> "ok", radius |-> (st.r0 + st.r1) \div 2,
              radMin |-> st.r0, radMax |-> st.r1]
        ELSE IF st.left
        THEN [status |-> "RuntimeError"]
        ELSE [status |-> "running"]

\* PSFImage._findRadiusByScanning: the radius found by the two scans
_findRadiusByScanning(rr2, targetNumber, radiusSig) ==
    LET step0 == scan(rr2, targetNumber, radiusSig, 1, 10, 0, 4 * radiusSig)
    IN  IF step0.status # "ok"
        THEN [status |-> "RuntimeError"]
        ELSE LET step1 == scan(rr2, targetNumber, radiusSig, 5, 1000,
                               step0.radMin, step0.radMax)
             IN  IF step1.status # "ok"
                 THEN [status |-> "RuntimeError"]
                 ELSE [status |-> "ok", radius |-> step1.radius]

\* the quantities _findPSF computes before its loop (psf_analysis.py 256-269):
\* targetNumber (in tenths), SCALE / sqrt(targetNumber) as the quotient
\* scaleNum / scaleDen, and the squared distances rr2 of the photons
PrimaryContext(fraction) ==
    LET N == _numberOfDetectedPhotons[1]
        rr2 == PhotonRR2
        radiusSig == RadiusSig
        targetNumber == fraction * N
        currentRadius == (3 * radiusSig) \div 2
        startNumber == _sumPhotonsInRadius(rr2, currentRadius)
    IN  [N |-> N, targetNumber |-> targetNumber, rr2 |-> rr2,
         radiusSig |-> radiusSig, currentRadius |-> currentRadius,
         startNumber |-> startNumber,
         scaleNum |-> currentRadius * StepScale,
         scaleDen |-> ISqrt(40 * startNumber * targetNumber * StepScale * StepScale)]

\* the loop variables before the first pass (psf_analysis.py 263-270)
PrimaryStart(c) ==
    [foundRadius |-> FALSE, currentRadius |-> c.currentRadius,
     deltaNumber |-> 10 * c.startNumber - c.targetNumber, nIter |-> 0]

\* _findPSF doubling the radius of the scan and not the one of the loop
_findPSF_doublesScan(fraction) ==
    LET c == PrimaryContext(fraction)
    IN  IF c.startNumber = 0
        THEN [status |-> "ZeroDivisionError", stage |-> "start", nIter |-> 0]
        ELSE LET it == PrimaryIteration(c, PrimaryStart(c), MAX_ITER)
             IN  IF it.foundRadius
                 THEN [status |-> "ok", stage |-> "primary", nIter |-> it.nIter,
                       value |-> it.currentRadius, radius |-> it.currentRadius]
                 ELSE LET sc == _findRadiusByScanning(c.rr2, c.targetNumber, c.radiusSig)
                      IN  IF sc.status # "ok"
                          THEN [status |-> "RuntimeError", stage |-> "scan",
                                nIter |-> it.nIter]
                          ELSE [status |-> "ok", stage |-> "scan", nIter |-> it.nIter,
                                value |-> 2 * sc.radius, radius |-> sc.radius]

\* _findPSF handing an image without a start count over to the scan, which
\* finds nothing
_findPSF_scansOnZero(fraction) ==
    LET c == PrimaryContext(fraction)
    IN  IF c.startNumber = 0
        THEN [status |-> "RuntimeError", stage |-> "scan", nIter |-> 0]
        ELSE LET it == PrimaryIteration(c, PrimaryStart(c), MAX_ITER)
             IN  IF it.foundRadius
                 THEN [status |-> "ok", stage |-> "primary", nIter |-> it.nIter,
                       value |-> 2 * it.currentRadius, radius |-> it.currentRadius]
                 ELSE LET sc == _findRadiusByScanning(c.rr2, c.targetNumber, c.radiusSig)
                      IN  IF sc.status # "ok"
                          THEN [status |-> "RuntimeError", stage |-> "scan",
                                nIter |-> it.nIter]
                          ELSE [status |-> "ok", stage |-> "scan", nIter |-> it.nIter,
                                value |-> sc.radius, radius |-> sc.radius]

\* PSFImage._findPSF, on a loaded image: the value returned or the exception
\* raised, with the stage that produced it, the radius that stage found and
\* the number of passes of the loop
_findPSF(fraction) ==
    LET c == PrimaryContext(fraction)
    IN  IF c.startNumber = 0
        THEN [status |-> "ZeroDivisionError", stage |-> "start", nIter |-> 0]
        ELSE LET it == PrimaryIteration(c, PrimaryStart(c), MAX_ITER)
             IN  IF it.foundRadius
                 THEN [status |-> "ok", stage |-> "primary", nIter |-> it.nIter,
                       value |-> 2 * it.currentRadius, radius |-> it.currentRadius]
                 ELSE LET sc == _findRadiusByScanning(c.rr2, c.targetNumber, c.radiusSig)
                      IN  IF sc.status # "ok"
                          THEN [status |-> "RuntimeError", stage |-> "scan",
                                nIter |-> it.nIter]
                          ELSE [status |-> "ok", stage |-> "scan", nIter |-> it.nIter,
                                value |-> sc.radius, radius |-> sc.radius]

\* value * self._cmToDeg and value / self._cmToDeg
CmToDeg(value) == (value * _cmToDeg[1].num) \div _cmToDeg[1].den
DegToCm(value) == (value * _cmToDeg[1].den) \div _cmToDeg[1].num

(***************************************************************************)
(* PSFImage.getPSF.  _computePSF stores what _findPSF returns; when        *)
(* _findPSF raises, nothing is stored and the exception reaches the caller.*)
(* getPSF and setPSF are called on images that have ingested a file.       *)
(***************************************************************************)
\* getPSF solving on every call, whatever is stored
getPSFCall_noCache(fraction, unit) ==
    IF unit = "deg" /\ ~_hasFocalLength
    THEN [status |-> "ok", value |-> Nothing, ran |-> 0, stored |-> _storedPSF,
          stage |-> None, radius |-> Nothing, nIter |-> 0]
    ELSE LET r == _findPSF(fraction)
         IN  IF r.status # "ok"
             THEN [status |-> r.status, value |-> Nothing, ran |-> 1,
                   stored |-> _storedPSF, stage |-> r.stage,
                   radius |-> Nothing, nIter |-> r.nIter]
             ELSE [status |-> "ok",
                   value |-> Some(IF unit = "cm" THEN r.value ELSE CmToDeg(r.value)),
                   ran |-> 1,
                   stored |-> [_storedPSF EXCEPT ![fraction] = Some(r.value)],
                   stage |-> r.stage, radius |-> Some(r.radius), nIter |-> r.nIter]

getPSFCall(fraction, unit) ==
    IF unit = "deg" /\ ~_hasFocalLength
    THEN [status |-> "ok", value |-> Nothing, ran |-> 0, stored |-> _storedPSF,
          stage |-> None, radius |-> Nothing, nIter |-> 0]
    ELSE IF _storedPSF[fraction] # Nothing
    THEN [status |-> "ok",
          value |-> Some(IF unit = "cm" THEN _storedPSF[fraction][1]
                         ELSE CmToDeg(_storedPSF[fraction][1])),
          ran |-> 0, stored |-> _storedPSF, stage |-> None,
          radius |-> Nothing, nIter |-> 0]
    ELSE LET r == _findPSF(fraction)
         IN  IF r.status # "ok"
             THEN [status |-> r.status, value |-> Nothing, ran |-> 1,
                   stored |-> _storedPSF, stage |-> r.stage,
                   radius |-> Nothing, nIter |-> r.nIter]
             ELSE [status |-> "ok",
                   value |-> Some(IF unit = "cm" THEN r.value ELSE CmToDeg(r.value)),
                   ran |-> 1,
                   stored |-> [_storedPSF EXCEPT ![fraction] = Some(r.value)],
                   stage |-> r.stage, radius |-> Some(r.radius), nIter |-> r.nIter]

getPSF(fraction, unit) ==
    /\ psfState = "created"
    /\ centroidX # Nothing
    /\ psfCalls < MaxCalls
    /\ \E c \in {getPSFCall(fraction, unit)} :
           /\ _storedPSF' = c.stored
           /\ nFindPSF' = [nFindPSF EXCEPT ![fraction] = @ + c.ran]
           /\ psfRet' = [op |-> "getPSF", fraction |-> fraction, unit |-> unit,
                         status |-> c.status, value |-> c.value, ran |-> c.ran,
                         stage |-> c.stage, radius |-> c.radius, nIter |-> c.nIter]
    /\ psfCalls' = psfCalls + 1
    /\ UNCHANGED <<psfState, photonPosX, photonPosY, centroidX, centroidY, _totalArea,
                   _totalPhotons, _numberOfDetectedPhotons, _effectiveArea,
                   _hasFocalLength, _cmToDeg, nSetPSF>>
    /\ UNCHANGED <<camVars, effVars>>

\* setPSF leaving a stored value in place
setPSFCall_keepsStored(value, fraction, unit) ==
    IF (unit = "deg" /\ ~_hasFocalLength) \/ _storedPSF[fraction] # Nothing
    THEN _storedPSF
    ELSE [_storedPSF EXCEPT ![fraction] =
             Some(IF unit = "cm" THEN value ELSE DegToCm(value))]

\* PSFImage.setPSF: the dict _storedPSF after the call
setPSFCall(value, fraction, unit) ==
    IF unit = "deg" /\ ~_hasFocalLength
    THEN _storedPSF
    ELSE [_storedPSF EXCEPT ![fraction] =
             Some(IF unit = "cm" THEN value ELSE DegToCm(value))]

setPSF(value, fraction, unit) ==
    /\ psfState = "created"
    /\ centroidX # Nothing
    /\ psfCalls < MaxCalls
    /\ _storedPSF' = setPSFCall(value, fraction, unit)
    /\ nSetPSF' = nSetPSF + 1
    /\ psfRet' = [op |-> "setPSF", fraction |-> fraction, unit |-> unit,
                  status |-> "ok", value |-> value]
    /\ psfCalls' = psfCalls + 1
    /\ UNCHANGED <<psfState, photonPosX, photonPosY, centroidX, centroidY, _totalArea,
                   _totalPhotons, _numberOfDetectedPhotons, _effectiveArea,
                   _hasFocalLength, _cmToDeg, nFindPSF>>
    /\ UNCHANGED <<camVars, effVars>>

PSFStart ==
    /\ psfState = "none"
    /\ photonPosX = << >>
    /\ photonPosY = << >>
    /\ centroidX = Nothing
    /\ centroidY = Nothing
    /\ _totalArea = Nothing
    /\ _totalPhotons = Nothing
    /\ _numberOfDetectedPhotons = Nothing
    /\ _effectiveArea = Nothing
    /\ _storedPSF = [f \in Fractions |-> Nothing]
    /\ _hasFocalLength = FALSE
    /\ _cmToDeg = Nothing
    /\ nFindPSF = [f \in Fractions |-> 0]
    /\ nSetPSF = 0
    /\ psfCalls = 0
    /\ psfRet = [op |-> None]

PSFNext ==
    \/ /\ psfState = "none"
       /\ \E focalLength \in PsfFocalLengths, totalScatteredArea \in TotalScatteredAreas :
              PSFImageInit(focalLength, totalScatteredArea)
    \/ /\ psfState = "created"
       /\ psfRet.op = None
       /\ \E file \in SimtelFiles : readSimtelFile(file)
    \/ \E fraction \in Fractions, unit \in Units : getPSF(fraction, unit)
    \/ \E value \in SetValues, fraction \in Fractions, unit \in Units :
           setPSF(value, fraction, unit)

\* the listings ingested into an image that has ingested one already
AppendedFiles ==
    AnnotatedFiles \cup ShortLineFiles
        \cup { <<AnnotationLine(10, 400), CommentLine>> \o PhotonLines(S) :
                 S \in {{}, {3}} }

\* construction and up to MaxReads ingestions in a row
Ingestions ==
    \/ /\ psfState = "none"
       /\ \E focalLength \in PsfFocalLengths, totalScatteredArea \in TotalScatteredAreas :
              PSFImageInit(focalLength, totalScatteredArea)
    \/ /\ psfState = "created"
       /\ psfRet.op = None
       /\ \E file \in SimtelFiles : readSimtelFile(file)
    \/ /\ psfRet.op = "readSimtelFile"
       /\ psfRet.nth < MaxReads
       /\ \E file \in AppendedFiles : readSimtelFile(file)

(***************************************************************************)
(* CameraEfficiency.  The output of testeff is a sequence of lines: a      *)
(* text line, or a line of numbers, which the table pattern matches (five  *)
(* numbers or more).  A table is the sequence of its rows; a results file  *)
(* holds a table.  Wavelengths are 200 or 400, so that 400/wl is integer.  *)
(***************************************************************************)
TextLine == [kind |-> "text"]
NumberLine(numbers) == [kind |-> "numbers", numbers |-> numbers]

\* wl eff effAtm qe ref masts filt pixel atmTrans cher nsb atmCorr nsbSite
\* nsbSiteEff nsbBe nsbBeEff
Numbers400 == <<400, 1, 1, 2, 1, 1, 1, 1, 3, 1, 1, 1, 1, 1, 5, 1>>
Numbers200 == <<200, 1, 1, 1, 2, 1, 1, 3, 1, 1, 1, 1, 1, 1, 2, 1>>

\* what testeff may leave in the output file
SimtelOutputs ==
    { << >>,
      <<TextLine>>,
      <<TextLine, NumberLine(Numbers400)>>,
      <<TextLine, NumberLine(Numbers200), NumberLine(Numbers400)>>,
      <<TextLine, NumberLine(Numbers400), NumberLine(SubSeq(Numbers200, 1, 8))>> }

\* the row analyze appends to every column for a line of numbers
\* (camera_efficiency.py 296-319); numbers[i] of the code is numbers[i + 1]
Row(numbers) ==
    LET C1 == numbers[9] * (400 \div numbers[1]) * (400 \div numbers[1])
        C2 == C1 * numbers[5] * numbers[6]
        C3 == C2 * numbers[7] * numbers[8]
        N1 == numbers[15]
        N2 == N1 * numbers[5] * numbers[6]
        N3 == N2 * numbers[7] * numbers[8]
    IN  [first |-> SubSeq(numbers, 1, 16),
         C1 |-> C1, C2 |-> C2, C3 |-> C3, C4 |-> C3 * numbers[4],
         C4x |-> C1 * numbers[4] * numbers[7] * numbers[8],
         N1 |-> N1, N2 |-> N2, N3 |-> N3, N4 |-> N3 * numbers[4],
         N4x |-> N1 * numbers[4] * numbers[7] * numbers[8]]

\* the results files found on disk when the object is created
ResultsFiles == {Nothing, Some(<<Row(Numbers200)>>)}

\* the loop of analyze over the lines of the output (293-319); a line of
\* fewer than 16 numbers raises IndexError at numbers[i]
RECURSIVE ParseLines(_, _)
ParseLines(p, lines) ==
    IF lines = << >> \/ p.error # None THEN p
    ELSE LET line == Head(lines)
         IN  IF line.kind = "text" THEN ParseLines(p, Tail(lines))
             ELSE IF Len(line.numbers) < 16
             THEN [p EXCEPT !.error = "IndexError"]
             ELSE ParseLines([p EXCEPT !.rows = Append(@, Row(line.numbers))],
                             Tail(lines))

\* CameraEfficiency.__init__: a telescope model of another class is rejected
CameraEfficiencyInit(isTelescopeModel, results, simtel, fillFactor) ==
    /\ effState = "none"
    /\ effState' = IF isTelescopeModel THEN "created" ELSE "failed"
    /\ _hasResults' = FALSE
    /\ fileResults' = results
    /\ fileSimtel' = simtel
    /\ fillFactorStatus' = fillFactor
    /\ effRet' = [op |-> "__init__",
                  status |-> IF isTelescopeModel THEN "ok" ELSE "ValueError"]
    /\ UNCHANGED <<_results, effCalls>>
    /\ UNCHANGED <<camVars, psfVars>>

\* what the last call is told about the state before it
EffBefore ==
    [_hasResults |-> _hasResults, _results |-> _results,
     fileResults |-> fileResults, fileSimtel |-> fileSimtel]

\* CameraEfficiency.simulate: skipped when the output exists and force is
\* false; else the shell command is run, and it leaves the output file as it
\* was (the cd failed) or with whatever testeff wrote to it
simulate(force) ==
    /\ effState = "created"
    /\ effCalls < MaxCalls
    /\ IF fileSimtel # Nothing /\ ~force
       THEN /\ UNCHANGED fileSimtel
            /\ effRet' = [op |-> "simulate", force |-> force, status |-> "ok",
                          ran |-> FALSE, before |-> EffBefore]
       ELSE /\ \E output \in {fileSimtel} \cup { Some(o) : o \in SimtelOutputs } :
                  fileSimtel' = output
            /\ effRet' = [op |-> "simulate", force |-> force, status |-> "ok",
                          ran |-> TRUE, before |-> EffBefore]
    /\ effCalls' = effCalls + 1
    /\ UNCHANGED <<effState, _hasResults, _results, fileResults, fillFactorStatus>>
    /\ UNCHANGED <<camVars, psfVars>>

\* CameraEfficiency._readResults: the outcomes of reading the results file.
\* ascii.read of a file written from a table without rows and columns either
\* returns such a table or raises.
_readResults ==
    { [status |-> "ok", hasResults |-> TRUE, results |-> fileResults] }
    \cup IF fileResults = Some(<< >>)
         THEN { [status |-> "InconsistentTableError", hasResults |-> _hasResults,
                 results |-> _results] }
         ELSE {}

\* CameraEfficiency.exportResults: what it leaves in the results file, and
\* whether it wrote
exportResultsCall(hasResults, results) ==
    IF ~hasResults
    THEN [file |-> fileResults, wrote |-> FALSE]
    ELSE [file |-> results, wrote |-> TRUE]

\* analyze parsing the output whether or not a results file exists
analyzeCall_alwaysParses(export, force) ==
    IF fileSimtel = Nothing
    THEN { [status |-> "FileNotFoundError", hasResults |-> _hasResults,
            results |-> _results, file |-> fileResults, loaded |-> FALSE,
            parsed |-> FALSE, wrote |-> FALSE] }
    ELSE LET p == ParseLines([rows |-> << >>, error |-> None], fileSimtel[1])
             e == exportResultsCall(TRUE, Some(p.rows))
         IN  { [status |-> IF p.error # None THEN p.error ELSE "ok",
                hasResults |-> TRUE, results |-> Some(p.rows),
                file |-> IF export THEN e.file ELSE fileResults, loaded |-> FALSE,
                parsed |-> TRUE, wrote |-> export] }

\* CameraEfficiency.analyze: the outcomes of a call.  After the table is
\* stored and _hasResults is set (321-322), the logging statements compute the
\* efficiencies (325-341): a table without rows has no column 'C1' (KeyError),
\* and getCameraFillFactor may raise; exportResults comes after them.
analyzeCall(export, force) ==
    IF fileResults # Nothing /\ ~force
    THEN { [status |-> r.status, hasResults |-> r.hasResults, results |-> r.results,
            file |-> fileResults, loaded |-> r.status = "ok", parsed |-> FALSE,
            wrote |-> FALSE] : r \in _readResults }
    ELSE IF fileSimtel = Nothing
    THEN { [status |-> "FileNotFoundError", hasResults |-> _hasResults,
            results |-> _results, file |-> fileResults, loaded |-> FALSE,
            parsed |-> FALSE, wrote |-> FALSE] }
    ELSE LET p == ParseLines([rows |-> << >>, error |-> None], fileSimtel[1])
             e == exportResultsCall(TRUE, Some(p.rows))
         IN  IF p.error # None
             THEN { [status |-> p.error, hasResults |-> _hasResults,
                     results |-> _results, file |-> fileResults, loaded |-> FALSE,
                     parsed |-> TRUE, wrote |-> FALSE] }
             ELSE IF p.rows = << >> \/ fillFactorStatus # "ok"
             THEN { [status |-> IF p.rows = << >> THEN "KeyError" ELSE fillFactorStatus,
                     hasResults |-> TRUE, results |-> Some(p.rows),
                     file |-> fileResults, loaded |-> FALSE, parsed |-> TRUE,
                     wrote |-> FALSE] }
             ELSE { [status |-> "ok", hasResults |-> TRUE, results |-> Some(p.rows),
                     file |-> IF export THEN e.file ELSE fileResults,
                     loaded |-> FALSE, parsed |-> TRUE,
                     wrote |-> export /\ e.wrote] }

analyze(export, force) ==
    /\ effState = "created"
    /\ effCalls < MaxCalls
    /\ \E c \in analyzeCall(export, force) :
           /\ _hasResults' = c.hasResults
           /\ _results' = c.results
           /\ fileResults' = c.file
           /\ effRet' = [op |-> "analyze", export |-> export, force |-> force,
                         status |-> c.status, loaded |-> c.loaded,
                         parsed |-> c.parsed, wrote |-> c.wrote,
                         before |-> EffBefore]
    /\ effCalls' = effCalls + 1
    /\ UNCHANGED <<effState, fileSimtel, fillFactorStatus>>
    /\ UNCHANGED <<camVars, psfVars>>

exportResults ==
    /\ effState = "created"
    /\ effCalls < MaxCalls
    /\ \E e \in {exportResultsCall(_hasResults, _results)} :
           /\ fileResults' = e.file
           /\ effRet' = [op |-> "exportResults", status |-> "ok", wrote |-> e.wrote,
                         before |-> EffBefore]
    /\ effCalls' = effCalls + 1
    /\ UNCHANGED <<effState, _hasResults, _results, fileSimtel, fillFactorStatus>>
    /\ UNCHANGED <<camVars, psfVars>>

EfficiencyStart ==
    /\ effState = "none"
    /\ _hasResults = FALSE
    /\ _results = Nothing
    /\ fileResults = Nothing
    /\ fileSimtel = Nothing
    /\ fillFactorStatus = "ok"
    /\ effCalls = 0
    /\ effRet = [op |-> None]

EfficiencyNext ==
    \/ /\ effState = "none"
       /\ \E isTelescopeModel \in BOOLEAN, results \in ResultsFiles,
             simtel \in {Nothing} \cup { Some(o) : o \in SimtelOutputs },
             fillFactor \in {"ok", "ValueError"} :
              CameraEfficiencyInit(isTelescopeModel, results, simtel, fillFactor)
    \/ \E force \in BOOLEAN : simulate(force)
    \/ \E export \in BOOLEAN, force \in BOOLEAN : analyze(export, force)
    \/ exportResults

vars == <<camVars, psfVars, effVars>>

Init == CameraStart /\ PSFStart /\ EfficiencyStart

\* the Camera alone: no PSFImage is created
CameraSpec == Init /\ [][CameraNext]_vars

\* the PSFImage alone: no Camera is created
PSFSpec == Init /\ [][PSFNext]_vars

\* the CameraEfficiency alone
EfficiencySpec == Init /\ [][EfficiencyNext]_vars

\* the PSFImage alone, ingestions only
IngestionSpec == Init /\ [][Ingestions]_vars

\* the Camera alone, every operation, on the layouts of LayoutFiles
CameraOperationsSpec == Init /\ [][CameraOperations]_vars

(***************************************************************************)
(* Properties.                                                             *)
(***************************************************************************)
\* what the last accessor call returned, when it was the named accessor
Returned(op) == camState = "ok" /\ camRet.op = op /\ camRet.status = "ok"

Hexagonal == _pixels.pixel_shape = 1 \/ _pixels.pixel_shape = 3
Square == _pixels.pixel_shape = 2
PixelIndices == 1..Len(_pixels.x)
D == _pixels.pixel_diameter
PixelDist2(i, j) == Dist2(_pixels.x, _pixels.y, i, j)

\* hexagonal pixels: centres no further apart than 1.1 x diameter
WithinHexRadius(i, j) == 100 * PixelDist2(i, j) <= 121 * D * D
\* square pixels: centres no further apart than 1.4 x diameter
WithinSquareRadius(i, j) == 100 * PixelDist2(i, j) <= 196 * D * D
SquareBase(i) == { j \in PixelIndices \ {i} : WithinSquareRadius(i, j) }
\* closer than 1.2 x 1.4 x diameter, and less than 0.2 x diameter apart in x or y
SquareAligned(i, j) ==
    /\ 10000 * PixelDist2(i, j) < 28224 * D * D
    /\ \/ 5 * Abs(_pixels.x[i] - _pixels.x[j]) < D
       \/ 5 * Abs(_pixels.y[i] - _pixels.y[j]) < D
SquareAdded(i) ==
    { j \in PixelIndices \ {i} : j \notin SquareBase(i) /\ SquareAligned(i, j) }

\* C1: however often getNeighbourPixels is called on one Camera, the neighbour
\* computation (_calcNeighbourPixels) runs at most once.
C1_NeighboursComputedOnce == nCalcNeighbourPixels <= 1

\* C2: however often getEdgePixels and calcFOV are called on one Camera, the
\* edge-pixel computation (_calcEdgePixels) runs at most once.
C2_EdgePixelsComputedOnce == nCalcEdgePixels <= 1

\* C3 as stated: as long as setPSF has not been called, the solver (_findPSF)
\* has run at most once for every fraction.
C3_SolverRunsOncePerFraction ==
    nSetPSF = 0 => \A f \in Fractions : nFindPSF[f] <= 1

\* C3 as amended: once a value is stored for a fraction, a getPSF call does not
\* run the solver for that fraction again, leaves the stored value in place
\* and returns it (in cm: as it is); a getPSF call whose solve raises stores
\* nothing.
C3_StoredValueIsReused ==
    [][\A f \in Fractions :
          /\ (_storedPSF[f] # Nothing /\ nSetPSF' = nSetPSF)
                => /\ nFindPSF'[f] = nFindPSF[f]
                   /\ _storedPSF'[f] = _storedPSF[f]
                   /\ (psfCalls' # psfCalls /\ psfRet'.fraction = f /\ psfRet'.unit = "cm")
                         => psfRet'.value = _storedPSF[f]
          /\ (nFindPSF'[f] # nFindPSF[f])
                => /\ nFindPSF'[f] = nFindPSF[f] + 1
                   /\ (psfRet'.status = "ok") = (_storedPSF'[f] # Nothing)
                   /\ psfRet'.status = "ok" => psfRet'.value = _storedPSF'[f]
                                                \/ psfRet'.unit = "deg"]_vars

\* a getPSF call was answered from the cache after one run of the solver
C3_Witness ==
    /\ psfRet.op = "getPSF"
    /\ psfRet.ran = 0
    /\ psfRet.value # Nothing
    /\ nSetPSF = 0
    /\ nFindPSF[psfRet.fraction] = 1

\* the resolution of the scan: the width of the bracket of its second pass
ScanResolution == (5 * RadiusSig) \div 1000 + 1

\* the circle of the given diameter around the centroid holds the fraction of
\* the photons, to the resolution of the solver
IsContainmentDiameter(value, fraction) ==
    LET radius == value \div 2
        inner == IF radius < ScanResolution THEN 0 ELSE radius - ScanResolution
        outer == radius + ScanResolution
        targetNumber == fraction * _numberOfDetectedPhotons[1]
    IN  /\ 10 * _sumPhotonsInRadius(PhotonRR2, inner) <= targetNumber
        /\ targetNumber <= 10 * _sumPhotonsInRadius(PhotonRR2, outer)

\* C4: the value getPSF returns after solving is the containment diameter,
\* whichever stage of the solver produced it.
C4_ReturnsContainmentDiameter ==
    (psfRet.op = "getPSF" /\ psfRet.status = "ok" /\ psfRet.ran = 1 /\ psfRet.unit = "cm")
        => IsContainmentDiameter(psfRet.value[1], psfRet.fraction)

\* C5: for a hexagonal layout, j is a neighbour of i exactly if j is another
\* pixel whose centre is no further than 1.1 x diameter from the centre of i.
C5_HexagonalNeighbours ==
    (Returned("getNeighbourPixels") /\ Hexagonal)
        => \A i \in PixelIndices :
              camRet.value[i] = { j \in PixelIndices : j # i /\ WithinHexRadius(i, j) }

\* the scenario: pixels at (0,0), (1,0), (0,1), diameter 1, shape 1
C5_Witness ==
    /\ Returned("getNeighbourPixels")
    /\ _pixels.pixel_shape = 1
    /\ _pixels.pixel_diameter = 1
    /\ _pixels.x = <<0, 1, 0>>
    /\ _pixels.y = <<0, 0, 1>>
    /\ camRet.value[1] = {2, 3}

\* C6: for a square layout, the neighbours of i are the other pixels within
\* 1.4 x diameter and, only if those are fewer than 4, the aligned pixels
\* within 1.2 x 1.4 x diameter.
C6_SquareNeighbours ==
    (Returned("getNeighbourPixels") /\ Square)
        => \A i \in PixelIndices :
              camRet.value[i] =
                  IF Cardinality(SquareBase(i)) < 4
                  THEN SquareBase(i) \cup SquareAdded(i)
                  ELSE SquareBase(i)

\* one pixel received an addition, another with 4 base neighbours did not
C6_Witness ==
    /\ Returned("getNeighbourPixels")
    /\ Square
    /\ \E i \in PixelIndices :
          Cardinality(SquareBase(i)) < 4 /\ SquareAdded(i) # {}
    /\ \E i \in PixelIndices :
          Cardinality(SquareBase(i)) >= 4 /\ SquareAdded(i) # {}

\* C7: the neighbour relation can be asymmetric, and only in this way: B is a
\* neighbour of A without A being one of B, in a square layout where the
\* second pass added B to A and B had 4 or more neighbours of its own.
C7_AsymmetryOnlyFromFallback ==
    Returned("getNeighbourPixels")
        => \A a, b \in PixelIndices :
              (b \in camRet.value[a] /\ a \notin camRet.value[b])
                 => /\ Square
                    /\ b \notin SquareBase(a)
                    /\ Cardinality(SquareBase(a)) < 4
                    /\ Cardinality(SquareBase(b)) >= 4

\* a square layout whose neighbour relation is not symmetric
C7_Witness ==
    /\ Returned("getNeighbourPixels")
    /\ Square
    /\ \E a, b \in PixelIndices :
          b \in camRet.value[a] /\ a \notin camRet.value[b]

\* the neighbour sets of the layout
NeighbourSets == _calcNeighbourPixels(_pixels)
FullComplement == IF Hexagonal THEN 6 ELSE 4

\* C8: getEdgePixels returns exactly the "on" pixels with fewer neighbours
\* than the full complement (6 hexagonal, 4 square).
C8_EdgePixels ==
    Returned("getEdgePixels")
        => camRet.value =
              { i \in PixelIndices :
                  _pixels.pixOn[i] /\ Cardinality(NeighbourSets[i]) < FullComplement }

\* an "off" pixel below the full complement is left out, an "on" pixel below
\* it is returned
C8_Witness ==
    /\ Returned("getEdgePixels")
    /\ \E i \in PixelIndices :
          /\ ~_pixels.pixOn[i]
          /\ Cardinality(NeighbourSets[i]) < FullComplement
          /\ i \notin camRet.value
    /\ camRet.value # {}

\* C9: calcFOV on a camera without edge pixels does not execute the division
\* by the number of edge pixels.
C9_NoDivisionByZero ==
    (camState = "ok" /\ camRet.op = "calcFOV" /\ camRet.edgePixelIndices = {})
        => camRet.status # "ZeroDivisionError"

\* C10: a focal length <= 0 makes the constructor fail before the pixel list
\* is read, and no computation ever runs without a positive focal length.
C10_FocalLengthChecked ==
    /\ (camRet.op = "__init__" /\ camRet.focalLength <= 0)
          => /\ camState = "failed"
             /\ camError = "ValueError: focal length"
             /\ ~pixelListRead
    /\ (nCalcNeighbourPixels + nCalcEdgePixels + nCalcFOV > 0)
          => (camState = "ok" /\ _focalLength > 0)
    /\ camState = "ok" => _focalLength > 0

\* the constructor was given the focal length -5
C10_Witness ==
    /\ camRet.op = "__init__"
    /\ camRet.focalLength = -5
    /\ camState = "failed"
    /\ ~pixelListRead

(***************************************************************************)
(* Pixel layout read from the PixType line                                 *)
(***************************************************************************)
\* the constructor ran readPixelList on a file with this PixType line
ReadPixType(t) ==
    /\ camRet.op = "__init__"
    /\ camRet.focalLength > 0
    /\ camRet.pixType = Some(t)

\* C11: every layout whose construction succeeds has a diameter > 0 and a
\* shape code in {1, 2, 3}; a file in which the diameter is never set, or
\* whose diameter is not positive, or whose shape code is not 1, 2 or 3,
\* makes the construction fail.
C11_LayoutInvariant ==
    /\ camState = "ok" => /\ _pixels.pixel_diameter > 0
                          /\ _pixels.pixel_shape \in {1, 2, 3}
    /\ (camRet.op = "__init__" /\ camRet.focalLength > 0
          /\ (\/ camRet.pixType = Nothing
              \/ camRet.pixType[1].diameter <= 0
              \/ camRet.pixType[1].shape \notin {1, 2, 3}))
          => camState = "failed"

\* C12: a PixType line that carries shape code and diameter but no file
\* name is read successfully, and both efficiency file names keep their
\* default 'none'.
C12_FileReferencesOptional ==
    \A sh \in {1, 2, 3} :
        ReadPixType([shape |-> sh, diameter |-> 1, files |-> << >>])
            => /\ camState = "ok"
               /\ _pixels.lightguide_efficiency_angle_file = "none"
               /\ _pixels.lightguide_efficiency_wavelength_file = "none"

(***************************************************************************)
(* Ingestion of a photon list                                              *)
(***************************************************************************)
IsAnnotation(line) == line.kind = "annotation"
IsPhoton(line) == line.kind = "photon"

\* readSimtelFile was the last call, on this file
Ingested == psfRet.op = "readSimtelFile"

\* the photon lines and the annotation lines of the ingested file
FilePhotons == SelectSeq(psfRet.file, IsPhoton)
FileAnnotations == SelectSeq(psfRet.file, IsAnnotation)

\* every photon line of the ingested file has its x and its y
FileComplete == \A k \in DOMAIN FilePhotons : FilePhotons[k].y # Nothing

\* the emitted-photon total reported by the annotation lines
FileEmitted ==
    SumSeq([k \in DOMAIN FileAnnotations |-> FileAnnotations[k].photons])

\* the first area encountered: the one of the constructor, else the one of
\* the first annotation line
FirstArea ==
    IF psfRet.totalScatteredArea # Nothing THEN psfRet.totalScatteredArea
    ELSE IF FileAnnotations = << >> THEN Nothing
    ELSE Some(FileAnnotations[1].area)

\* C13: readSimtelFile fails with RuntimeError whenever, after the listing
\* has been processed, the x and y sequences are empty or of unequal length,
\* including when a line contributes an x but no y so that x ends one longer
\* than y.
C13_MismatchRaisesRuntimeError ==
    (Ingested /\ (\/ Len(photonPosX) = 0
                  \/ Len(photonPosY) = 0
                  \/ Len(photonPosX) # Len(photonPosY)))
        => psfRet.status = "RuntimeError"

\* C14: when annotation lines report differing areas, the area kept is the
\* first one encountered (the constructor's if given, else the first
\* annotation line's), every later differing value only counts a warning,
\* and the ingestion does not fail because of the conflict.
C14_FirstAreaIsKept ==
    (Ingested /\ FileComplete)
        => /\ _totalArea = FirstArea
           /\ psfRet.warnings =
                  Cardinality({ k \in DOMAIN FileAnnotations :
                                  Some(FileAnnotations[k].area) # FirstArea })
           /\ (FilePhotons # << >> /\ FileAnnotations # << >>)
                  => psfRet.status = "ok"

\* a file whose second annotation line reports another area than its first
\* was ingested by an image built without an area
C14_Witness ==
    /\ Ingested
    /\ psfRet.status = "ok"
    /\ psfRet.totalScatteredArea = Nothing
    /\ Len(FileAnnotations) = 2
    /\ FileAnnotations[1].area # FileAnnotations[2].area
    /\ psfRet.warnings = 1
    /\ _totalArea = Some(FileAnnotations[1].area)

\* C15: after a successful readSimtelFile the centroid is the arithmetic
\* mean of the photon x and y coordinates, and effectiveArea x emitted total
\* = detected count x total area, the detected count being the number of
\* photon lines and the emitted total the sum over the annotation lines.
C15_CentroidAndEffectiveArea ==
    (Ingested /\ psfRet.status = "ok")
        => LET N == Len(FilePhotons)
           IN  /\ _numberOfDetectedPhotons = Some(N)
               /\ centroidX[1].num * N =
                      centroidX[1].den * SumSeq([k \in 1..N |-> FilePhotons[k].x])
               /\ centroidY[1].num * N =
                      centroidY[1].den * SumSeq([k \in 1..N |-> FilePhotons[k].y[1]])
               /\ _effectiveArea[1].num * FileEmitted =
                      N * _totalArea[1] * _effectiveArea[1].den

\* a file with two annotation lines and two photon lines off the axis was
\* ingested
C15_Witness ==
    /\ Ingested
    /\ psfRet.status = "ok"
    /\ Len(FileAnnotations) = 2
    /\ FileEmitted = 16
    /\ Len(FilePhotons) = 2
    /\ centroidY[1].num # 0

\* C16: getPSF(fraction, unit = 'deg') on an image created without a focal
\* length fails with an error; it returns nothing to the caller.
C16_DegWithoutFocalLengthFails ==
    (psfRet.op = "getPSF" /\ psfRet.unit = "deg" /\ ~_hasFocalLength)
        => psfRet.status # "ok"

(***************************************************************************)
(* The solver                                                              *)
(***************************************************************************)
\* the last call was a getPSF in which _findPSF ran
Solved == psfRet.op = "getPSF" /\ psfRet.ran = 1

\* number of photons strictly within the radius
countWithin(radius) == _sumPhotonsInRadius(PhotonRR2, radius)

\* |count - fraction x detected photons| < detected photons / 1000
WithinTolerance(count, fraction) ==
    100 * Abs(10 * count - fraction * _numberOfDetectedPhotons[1])
        < _numberOfDetectedPhotons[1]

\* C17: for every loaded image and fraction for which the solver returns,
\* the number of photons strictly within the radius it found differs from
\* fraction x detected photons by less than detected photons / 1000.
C17_RoundTrip ==
    (Solved /\ psfRet.status = "ok")
        => WithinTolerance(countWithin(psfRet.radius[1]), psfRet.fraction)

\* C18: on a loaded image for which both solves return, the value solved
\* for the fraction 1.0 is greater than or equal to the one solved for 0.8.
C18_MonotoneInFraction ==
    (nSetPSF = 0 /\ _storedPSF[10] # Nothing /\ _storedPSF[8] # Nothing)
        => _storedPSF[10][1] >= _storedPSF[8][1]

\* both fractions were solved, the fraction 0.8 by the loop
C18_Witness ==
    /\ Solved
    /\ psfRet.fraction = 8
    /\ psfRet.status = "ok"
    /\ psfRet.stage = "primary"
    /\ nSetPSF = 0
    /\ _storedPSF[10] # Nothing
    /\ _storedPSF[10][1] > _storedPSF[8][1]

\* the photons of the image lie on a ring around the centroid
IsRing ==
    /\ _numberOfDetectedPhotons[1] >= 3
    /\ PhotonRR2[1] > 0
    /\ \A k \in DOMAIN PhotonRR2 : PhotonRR2[k] = PhotonRR2[1]

RingRadius == ISqrt(PhotonRR2[1])

\* C19: for an image whose photons form a ring of radius R around the
\* centroid, the value solved for the fraction 1.0 is about 2R (within a
\* tenth of 2R).
C19_RingDiameter ==
    (Solved /\ psfRet.status = "ok" /\ psfRet.fraction = 10 /\ psfRet.unit = "cm"
       /\ IsRing)
        => 10 * Abs(psfRet.value[1] - 2 * RingRadius) <= 2 * RingRadius

\* the loop variables after each of n further passes of the loop body,
\* whatever the test of a pass says
RECURSIVE PrimaryPasses(_, _, _)
PrimaryPasses(c, seq, n) ==
    IF n = 0 \/ seq = << >>
    THEN seq
    ELSE IF n = 1
    THEN Append(seq, PrimaryStep(c, seq[Len(seq)]))
    ELSE PrimaryPasses(c, PrimaryPasses(c, seq, n \div 2), n - n \div 2)

\* the radius updates that satisfy the test
\* |countWithin(r) - target| < detected photons / 1000, among MAX_ITER updates
SatisfyingUpdates(fraction) ==
    LET c == PrimaryContext(fraction)
        passes == PrimaryPasses(c, <<PrimaryStart(c)>>, MAX_ITER)
    IN  { k \in 1..MAX_ITER :
            WithinTolerance(countWithin(passes[k + 1].currentRadius), fraction) }

\* the radius after update k
UpdatedRadius(fraction, k) ==
    LET c == PrimaryContext(fraction)
    IN  PrimaryPasses(c, <<PrimaryStart(c)>>, k)[k + 1].currentRadius

\* C20: the loop makes at most 100 radius updates and stops at the first
\* update whose photon count satisfies the test; the scan is run if and
\* only if none of the 100 updates satisfied it.
C20_BothStagesKept ==
    (Solved /\ psfRet.stage # "start")
        => LET hits == SatisfyingUpdates(psfRet.fraction)
           IN  /\ psfRet.nIter <= MAX_ITER
               /\ psfRet.stage = "primary" <=> hits # {}
               /\ psfRet.stage = "scan" <=> hits = {}
               /\ psfRet.stage = "primary"
                     => /\ psfRet.nIter \in hits
                        /\ \A k \in hits : psfRet.nIter <= k
                        /\ psfRet.radius =
                              Some(UpdatedRadius(psfRet.fraction, psfRet.nIter))
               /\ psfRet.stage = "scan" => psfRet.nIter = MAX_ITER

\* the loop stopped at its third update
C20_Witness ==
    /\ Solved
    /\ psfRet.stage = "primary"
    /\ psfRet.nIter = 3

(***************************************************************************)
(* The scan                                                                *)
(***************************************************************************)
\* the target of the last solve, in tenths of a photon
SolvedTarget == psfRet.fraction * _numberOfDetectedPhotons[1]

\* countWithin exceeds the target at some radius up to 4 x radiusSig
ExceedsTarget == 10 * countWithin(4 * RadiusSig) > SolvedTarget

\* the coarse scan and the refinement scan of the last solve
CoarseScan == scan(PhotonRR2, SolvedTarget, RadiusSig, 1, 10, 0, 4 * RadiusSig)
FineScan ==
    scan(PhotonRR2, SolvedTarget, RadiusSig, 5, 1000, CoarseScan.radMin,
         CoarseScan.radMax)

\* [r0, r1] brackets the target
Brackets(r0, r1) ==
    /\ 10 * countWithin(r0) < SolvedTarget
    /\ 10 * countWithin(r1) > SolvedTarget

\* C21: the scan raises its error exactly when countWithin never exceeds
\* the target up to 4 x radiusSig; in every other case the coarse scan and
\* the refinement scan both find a bracket [r0, r1] with
\* countWithin(r0) < target < countWithin(r1), and the midpoint of the
\* final bracket is returned.
C21_ScanFailsOnlyBelowTarget ==
    (Solved /\ psfRet.stage = "scan")
        => /\ psfRet.status = "RuntimeError" <=> ~ExceedsTarget
           /\ psfRet.status # "RuntimeError"
                 => /\ CoarseScan.status = "ok"
                    /\ Brackets(CoarseScan.radMin, CoarseScan.radMax)
                    /\ FineScan.status = "ok"
                    /\ Brackets(FineScan.radMin, FineScan.radMax)
                    /\ psfRet.radius =
                          Some((FineScan.radMin + FineScan.radMax) \div 2)

(***************************************************************************)
(* Square pixels on a regular grid                                         *)
(***************************************************************************)
\* the pixel centres fill a grid of at least 3 x 3 positions whose spacing
\* is the pixel diameter
IsRegularGrid ==
    LET xs == { _pixels.x[i] : i \in PixelIndices }
        ys == { _pixels.y[i] : i \in PixelIndices }
    IN  /\ Square
        /\ D > 0
        /\ Cardinality(xs) >= 3
        /\ Cardinality(ys) >= 3
        /\ Len(_pixels.x) = Cardinality(xs) * Cardinality(ys)
        /\ \A a \in xs, b \in ys :
              \E i \in PixelIndices : _pixels.x[i] = a /\ _pixels.y[i] = b
        /\ \A a \in xs : (\A c \in xs : a <= c) \/ (a - D) \in xs
        /\ \A b \in ys : (\A c \in ys : b <= c) \/ (b - D) \in ys

\* the pixels one diameter away from pixel i along a row or a column
Orthogonal(i) == { j \in PixelIndices : PixelDist2(i, j) = D * D }

\* pixel i has a pixel on each of its four sides
Interior(i) == Cardinality(Orthogonal(i)) = 4

\* C22: in a square layout on a regular grid, every interior pixel has
\* exactly 4 neighbours after the second pass, its 4 orthogonal neighbours,
\* and the second pass adds nothing to the neighbour sets of the border
\* pixels.
C22_GridInteriorHasFourNeighbours ==
    (Returned("getNeighbourPixels") /\ IsRegularGrid)
        => \A i \in PixelIndices :
              /\ Interior(i) => /\ Cardinality(camRet.value[i]) = 4
                                /\ camRet.value[i] = Orthogonal(i)
              /\ ~Interior(i) => camRet.value[i] = SquareBase(i)

\* the neighbours of a grid with an interior pixel, corners and border
\* pixels were returned
C22_Witness ==
    /\ Returned("getNeighbourPixels")
    /\ IsRegularGrid
    /\ \E i \in PixelIndices : Interior(i)
    /\ \E i \in PixelIndices : Cardinality(camRet.value[i]) = 2
    /\ \E i \in PixelIndices : Cardinality(camRet.value[i]) = 3

\* the "on" pixels of the layout
OnPixels == { i \in PixelIndices : _pixels.pixOn[i] }

\* C23: the number of edge pixels is at most the number of "on" pixels, and
\* it is 0 only if every "on" pixel has the full neighbour complement (6 or
\* more hexagonal, 4 or more square).
C23_EdgeCountBounded ==
    Returned("getEdgePixels")
        => /\ Cardinality(camRet.value) <= Cardinality(OnPixels)
           /\ Cardinality(camRet.value) = 0
                 => \A i \in OnPixels :
                       Cardinality(NeighbourSets[i]) >= FullComplement

\* no edge pixel although a pixel is on: all pixels around it are off
C23_Witness ==
    /\ Returned("getEdgePixels")
    /\ Cardinality(camRet.value) = 0
    /\ OnPixels # {}
    /\ \E i \in PixelIndices : ~_pixels.pixOn[i]

\* fewer edge pixels than "on" pixels, and at least one
C23_WitnessSome ==
    /\ Returned("getEdgePixels")
    /\ 0 < Cardinality(camRet.value)
    /\ Cardinality(camRet.value) < Cardinality(OnPixels)

\* the fields that make up the pixel layout
Layout(pixels) ==
    <<pixels.x, pixels.y, pixels.pixID, pixels.pixOn, pixels.pixel_shape,
      pixels.pixel_diameter, pixels.rotateAngle>>

\* C24: once the camera is constructed, no operation changes the pixel
\* positions, the pixel IDs, the on/off flags, the shape code, the diameter
\* or the stored rotation angle.
C24_LayoutImmutable ==
    [][camState = "ok" => Layout(_pixels') = Layout(_pixels)]_vars

\* getCameraFillFactor has replaced the spacing sentinel, and another
\* operation ran before it
C24_Witness ==
    /\ camState = "ok"
    /\ camRet.op = "getCameraFillFactor"
    /\ camRet.status = "ok"
    /\ _pixels.pixel_spacing # UNSET * LenScale
    /\ camCalls = 2

\* C25: whenever readSimtelFile raises, the centroid is still undefined and
\* no detected-photon count and no effective area has been set on the image
\* (on an image that had none of them before the call).
C25_NoPartialResults ==
    (Ingested /\ psfRet.status # "ok" /\ psfRet.before.centroidX = Nothing)
        => /\ centroidX = Nothing
           /\ centroidY = Nothing
           /\ _numberOfDetectedPhotons = Nothing
           /\ _effectiveArea = Nothing

\* the fields a failed ingestion leaves assigned: the centroid and the
\* detected-photon count, never the effective area
C25_FailureAfterCentroid ==
    (Ingested /\ psfRet.status # "ok" /\ psfRet.before.centroidX = Nothing)
        => /\ _effectiveArea = Nothing
           /\ centroidX # Nothing
                 <=> psfRet.status \in {"TypeError", "ZeroDivisionError"}
           /\ centroidX # Nothing <=> _numberOfDetectedPhotons # Nothing

\* the x and the y of the photon lines of the ingested file
FileX == [k \in DOMAIN FilePhotons |-> FilePhotons[k].x]
FileY == [k \in DOMAIN FilePhotons |-> FilePhotons[k].y[1]]

\* readSimtelFile succeeded on an image that an earlier readSimtelFile had
\* succeeded on
SecondIngestion ==
    /\ Ingested
    /\ psfRet.status = "ok"
    /\ psfRet.before._effectiveArea # Nothing

\* C29: after two successful ingestions on the same image, the position
\* lists are the ones held before followed by the photon lines of the second
\* listing; the detected count, the centroid and the effective area cover the
\* photon lines of both listings; the emitted-photon total covers the
\* annotation lines of the second listing only.
C29_SecondIngestionAppends ==
    SecondIngestion
        => LET N == Len(psfRet.before.photonPosX) + Len(FilePhotons)
           IN  /\ photonPosX = psfRet.before.photonPosX \o FileX
               /\ photonPosY = psfRet.before.photonPosY \o FileY
               /\ psfRet.before._numberOfDetectedPhotons
                      = Some(Len(psfRet.before.photonPosX))
               /\ _numberOfDetectedPhotons = Some(N)
               /\ centroidX = Some([num |-> SumSeq(psfRet.before.photonPosX)
                                             + SumSeq(FileX), den |-> N])
               /\ centroidY = Some([num |-> SumSeq(psfRet.before.photonPosY)
                                             + SumSeq(FileY), den |-> N])
               /\ _totalPhotons = Some(FileEmitted)
               /\ _effectiveArea[1].num * FileEmitted
                      = N * _totalArea[1] * _effectiveArea[1].den

\* a second listing with photon lines, ingested into an image holding the
\* photons of a first one, whose annotations reported another total
C29_Witness ==
    /\ SecondIngestion
    /\ psfRet.nth = 2
    /\ Len(psfRet.before.photonPosX) > 0
    /\ Len(FilePhotons) > 0
    /\ psfRet.before._effectiveArea[1].den # FileEmitted

\* the last call was analyze, and what it was given
Analyzed == effState = "created" /\ effRet.op = "analyze"
ResultsFileExisted == effRet.before.fileResults # Nothing
Recomputes == effRet.force \/ ~ResultsFileExisted

\* the table of an output: a row per line of numbers
IsNumberLine(line) == line.kind = "numbers"
TableOf(lines) ==
    LET rows == SelectSeq(lines, IsNumberLine)
    IN  [k \in DOMAIN rows |-> Row(rows[k].numbers)]

\* analyze, with a results file and without force, loads the file and
\* neither parses the output nor writes the results file
LoadsResults ==
    /\ effRet.loaded
    /\ _hasResults
    /\ _results = effRet.before.fileResults
    /\ ~effRet.parsed
    /\ ~effRet.wrote
    /\ fileResults = effRet.before.fileResults

\* analyze recomputes the table from the output and writes the results file
\* if export is true
RecomputesResults ==
    /\ effRet.parsed
    /\ ~effRet.loaded
    /\ effRet.before.fileSimtel # Nothing
    /\ _hasResults
    /\ _results = Some(TableOf(effRet.before.fileSimtel[1]))
    /\ effRet.wrote = effRet.export
    /\ fileResults = IF effRet.export THEN _results ELSE effRet.before.fileResults

\* exportResults writes only in a state where results are available, and
\* then writes the table held
ExportsOnlyResults ==
    (effState = "created" /\ effRet.op = "exportResults")
        => /\ effRet.wrote => effRet.before._hasResults /\ fileResults = _results
           /\ ~effRet.wrote => fileResults = effRet.before.fileResults

C26_WitnessLoaded ==
    /\ Analyzed
    /\ ~effRet.force
    /\ effRet.loaded
    /\ effRet.before.fileSimtel # Nothing
    /\ _results # Some(TableOf(effRet.before.fileSimtel[1]))

\* exportResults without results: nothing is written
C26_WitnessNoResults ==
    /\ effState = "created"
    /\ effRet.op = "exportResults"
    /\ ~effRet.wrote
    /\ ~_hasResults

\* a step that is a call of setPSF, and whether the call takes effect
SetStep == psfRet'.op = "setPSF" /\ psfCalls' = psfCalls + 1
TakesEffect(unit) == unit = "cm" \/ _hasFocalLength

\* a call getPSF(fraction, unit) made right after a setPSF(v, fraction, unit)
\* that took effect
GetAfterSet ==
    /\ psfRet.op = "setPSF"
    /\ TakesEffect(psfRet.unit)
    /\ psfRet'.op = "getPSF"
    /\ psfCalls' = psfCalls + 1
    /\ psfRet'.fraction = psfRet.fraction
    /\ psfRet'.unit = psfRet.unit

\* what setPSF does to the cache: the entry of the fraction is replaced,
\* whatever it was, the other entries are kept; in deg without a focal
\* length nothing changes
SetReplacesEntry ==
    SetStep
        => /\ \A g \in Fractions \ {psfRet'.fraction} : _storedPSF'[g] = _storedPSF[g]
           /\ IF TakesEffect(psfRet'.unit)
              THEN _storedPSF'[psfRet'.fraction]
                      = Some(IF psfRet'.unit = "cm" THEN psfRet'.value
                             ELSE (psfRet'.value * _cmToDeg[1].den)
                                      \div _cmToDeg[1].num)
              ELSE _storedPSF' = _storedPSF

\* C27 as stated: getPSF(fraction, unit) right after setPSF(v, fraction, unit)
\* returns v, in cm and in deg, without running the solver.
C27_GetReturnsSetValue ==
    [][/\ SetReplacesEntry
       /\ GetAfterSet => /\ psfRet'.ran = 0
                         /\ nFindPSF' = nFindPSF
                         /\ psfRet'.value = Some(psfRet.value)]_vars

\* C27: getPSF(fraction, unit) right after a setPSF(v, fraction, unit) that
\* took effect does not run the solver; it returns v when the unit is cm, and
\* v divided and multiplied again by the cm-to-deg factor, which is v up to
\* the rounding of the two operations, when the unit is deg.  setPSF replaces
\* the entry of its fraction, solved or set before, and keeps the entries of
\* the other fractions; in deg without a focal length it changes nothing.
C27_SetThenGet ==
    [][/\ SetReplacesEntry
       /\ GetAfterSet
             => /\ psfRet'.ran = 0
                /\ nFindPSF' = nFindPSF
                /\ psfRet'.status = "ok"
                /\ psfRet'.value # Nothing
                /\ psfRet.unit = "cm" => psfRet'.value = Some(psfRet.value)
                /\ psfRet.unit = "deg"
                      => Abs(psfRet'.value[1] - psfRet.value) * _cmToDeg[1].den
                            <= _cmToDeg[1].num + _cmToDeg[1].den]_vars

\* getPSF in deg has returned a value set in deg by the call before it
C27_Witness ==
    /\ psfRet.op = "getPSF"
    /\ psfRet.unit = "deg"
    /\ psfRet.status = "ok"
    /\ psfRet.value # Nothing
    /\ psfRet.ran = 0
    /\ nSetPSF = 1
    /\ nFindPSF[psfRet.fraction] = 0

\* setPSF has replaced a value the solver had stored for the fraction
C27_WitnessOverride ==
    /\ psfRet.op = "setPSF"
    /\ nFindPSF[psfRet.fraction] = 1
    /\ _storedPSF[psfRet.fraction] = Some(psfRet.value)

\* the loop variables before each pass the last solve made, and after its
\* last pass
LoopPasses(c) == PrimaryPasses(c, <<PrimaryStart(c)>>, psfRet.nIter)

\* the step of psf_analysis.py 273, before it is halved
RawStep(c, st) == TruncDiv((-st.deltaNumber) * c.scaleNum, c.scaleDen)

\* C28: throughout the primary iteration the current radius is never
\* negative, and the halving loop is never entered with a current radius of 0
\* and a negative step.
C28_RadiusNeverNegative ==
    (Solved /\ psfRet.stage # "start")
        => LET c == PrimaryContext(psfRet.fraction)
               passes == LoopPasses(c)
           IN  \A k \in 1..Len(passes) :
                  /\ passes[k].currentRadius >= 0
                  /\ k <= psfRet.nIter
                        => ~(passes[k].currentRadius = 0 /\ RawStep(c, passes[k]) < 0)

\* a pass whose step had to be halved, and a pass that starts from radius 0
C28_Witness ==
    /\ Solved
    /\ psfRet.stage # "start"
    /\ LET c == PrimaryContext(psfRet.fraction)
           passes == LoopPasses(c)
       IN  /\ \E k \in 1..psfRet.nIter :
                 passes[k].currentRadius + RawStep(c, passes[k]) < 0
           /\ \E k \in 1..psfRet.nIter : passes[k].currentRadius = 0

\* all detected photons are at the centroid
AllAtCentroid == \A k \in DOMAIN photonPosX : CentredSq(k) = 0

C30_WitnessSingle ==
    /\ Solved
    /\ psfRet.status = "ZeroDivisionError"
    /\ Len(photonPosX) = 1
====
